---- MODULE Spec2Model ----
(***************************************************************************)
(* A model of the product catalog sorter: the catalog service              *)
(* (internal/domain/catalog/service.go), the product entity and its        *)
(* validation (product.go), the strategy registry (sort_strategy.go), the  *)
(* result envelopes (sort_result.go) and the six sorters with their        *)
(* factory (internal/infrastructure/sorting).                              *)
(*                                                                         *)
(* Slices are modelled as references into a heap of backing arrays, so     *)
(* that the defensive copy of a sorter and the in-place sort on that copy  *)
(* are what keeps the caller's sequence intact.                            *)
(*                                                                         *)
(* sort.Slice orders the slice by the given less function and "is not      *)
(* guaranteed to be stable": a slice without an inversion is left as it    *)
(* is (insertion sort and pdqsort of Go 1.21 move nothing then), and for   *)
(* any other slice every arrangement without an inversion is a possible    *)
(* outcome.                                                                *)
(*                                                                         *)
(* Prices are decimal amounts, held as whole numbers of cents; instants are *)
(* integers; ratios are compared exactly as fractions: on the small values *)
(* of the model the float64 computations of the code are exact. The value  *)
(* NaN of a float64, which is no amount, is not among the prices.          *)
(*                                                                         *)
(* Spec is the service with one caller and one call at a time. ItemSpec    *)
(* validates items of every kind; ConcurrentSpec interleaves the steps of  *)
(* several calls over one shared sequence; RegistrySpec asks the registry  *)
(* and the factory about names; ContextSpec passes contexts that are live, *)
(* cancelled or expired; SessionSpec makes call after call on one service. *)
(***************************************************************************)
EXTENDS Integers, Sequences, FiniteSets, TLC

VARIABLES
    heap,       \* backing arrays: address -> sequence of products
    products,   \* the caller's slice: an address of heap, or NilRef
    original,   \* the caller's own snapshot of its sequence, taken before a call
    now,        \* the wall clock reading (time.Now)
    call,       \* the last operation called and its strategy argument(s)
    result,     \* the *SortResult returned: <<>> is nil, <<r>> a result
    batch,      \* the *BatchSortResult returned: <<>> is nil, <<b>> a result
    err,        \* the error returned; NoError is nil
    prev        \* <<output>> of the call before a re-arranged repeat, else <<>>

vars == <<heap, products, original, now, call, result, batch, err, prev>>

----------------------------------------------------------------------------
(* Bounds of the model *)

\* longest sequence of products a caller passes
MaxLen == 3

\* most strategies in the set a caller passes to BatchSort
MaxStrategies == 2

\* longest sequence of products a caller passes to BatchSort
MaxBatchLen == 2

----------------------------------------------------------------------------
(* sort_strategy.go *)

SortByPriceAsc == "price_asc"
SortByPriceDesc == "price_desc"
SortBySalesConversionRatio == "sales_conversion_ratio"
SortByCreatedAtDesc == "created_at_desc"
SortByCreatedAtAsc == "created_at_asc"
SortByPopularity == "popularity"
SortByRevenue == "revenue"
SortByName == "name"

AllSortStrategies ==
    << SortByPriceAsc, SortByPriceDesc, SortBySalesConversionRatio,
       SortByCreatedAtDesc, SortByCreatedAtAsc, SortByPopularity,
       SortByRevenue, SortByName >>

\* an IsValid that takes the empty name for a strategy
IsValidOrEmpty(s) ==
    s = "" \/ \E i \in DOMAIN AllSortStrategies : s = AllSortStrategies[i]

IsValid(s) ==
    \E i \in DOMAIN AllSortStrategies : s = AllSortStrategies[i]

\* strategy names a caller may pass: the registered ones and two others
StrategyNames ==
    { AllSortStrategies[i] : i \in DOMAIN AllSortStrategies }
        \cup { "invalid_strategy", "" }

\* the names a caller draws the strategy set of a batch from
BatchStrategyNames == { SortByPriceAsc, SortByName, "invalid_strategy" }

----------------------------------------------------------------------------
(* product.go: the entity *)

NilRef == 0

MaxNameLen == 255
MaxPrice == 99999999

Product(id, name, price, created, sales, views) ==
    [ ID |-> id, Name |-> name, Price |-> price, CreatedAt |-> created,
      SalesCount |-> sales, ViewsCount |-> views ]

\* a SalesConversionRatio that divides without looking at the views
SalesConversionRatioUnguarded(p) == << p.SalesCount, p.ViewsCount >>

\* SalesConversionRatio as the fraction <<numerator, denominator>>
SalesConversionRatio(p) ==
    IF p.ViewsCount = 0 THEN << 0, 1 >>
    ELSE << p.SalesCount, p.ViewsCount >>

\* float comparison of two ratios with positive denominators
RatioEq(r1, r2) == r1[1] * r2[2] = r2[1] * r1[2]
RatioGt(r1, r2) == r1[1] * r2[2] > r2[1] * r1[2]

RevenueGenerated(p) == p.Price * p.SalesCount

\* one ProductValidationError: the field and the message
FieldError(field, message) == [ Field |-> field, Message |-> message ]

\* a Validate that lets the sales exceed the views
ProductViolationsSalesMayExceedViews(p, t) ==
    (IF p.ID <= 0 THEN << FieldError("ID", "must be positive") >> ELSE << >>)
    \o (IF p.Name = << >>
        THEN << FieldError("Name", "cannot be empty") >> ELSE << >>)
    \o (IF Len(p.Name) > MaxNameLen
        THEN << FieldError("Name", "cannot exceed 255 characters") >>
        ELSE << >>)
    \o (IF p.Price < 0
        THEN << FieldError("Price", "cannot be negative") >> ELSE << >>)
    \o (IF p.Price > MaxPrice
        THEN << FieldError("Price", "exceeds maximum allowed value (999999.99)") >>
        ELSE << >>)
    \o (IF p.CreatedAt = 0
        THEN << FieldError("CreatedAt", "must be set") >> ELSE << >>)
    \o (IF p.CreatedAt > t
        THEN << FieldError("CreatedAt", "cannot be in the future") >>
        ELSE << >>)
    \o (IF p.SalesCount < 0
        THEN << FieldError("SalesCount", "cannot be negative") >> ELSE << >>)
    \o (IF p.ViewsCount < 0
        THEN << FieldError("ViewsCount", "cannot be negative") >> ELSE << >>)

\* Product.Validate: the violations of p in the order the code appends them;
\* the product is valid (nil error) when there is none. t is time.Now().
ProductViolations(p, t) ==
    (IF p.ID <= 0 THEN << FieldError("ID", "must be positive") >> ELSE << >>)
    \o (IF p.Name = << >>
        THEN << FieldError("Name", "cannot be empty") >> ELSE << >>)
    \o (IF Len(p.Name) > MaxNameLen
        THEN << FieldError("Name", "cannot exceed 255 characters") >>
        ELSE << >>)
    \o (IF p.Price < 0
        THEN << FieldError("Price", "cannot be negative") >> ELSE << >>)
    \o (IF p.Price > MaxPrice
        THEN << FieldError("Price", "exceeds maximum allowed value (999999.99)") >>
        ELSE << >>)
    \o (IF p.CreatedAt = 0
        THEN << FieldError("CreatedAt", "must be set") >> ELSE << >>)
    \o (IF p.CreatedAt > t
        THEN << FieldError("CreatedAt", "cannot be in the future") >>
        ELSE << >>)
    \o (IF p.SalesCount < 0
        THEN << FieldError("SalesCount", "cannot be negative") >> ELSE << >>)
    \o (IF p.ViewsCount < 0
        THEN << FieldError("ViewsCount", "cannot be negative") >> ELSE << >>)
    \o (IF p.SalesCount > p.ViewsCount
        THEN << FieldError("SalesCount", "sales count cannot exceed views count") >>
        ELSE << >>)

ProductIsValid(p, t) == ProductViolations(p, t) = << >>

\* a ProductCollection.Validate that returns at the first invalid item
CollectionViolationsFromStopAtFirst(pc, i, t) ==
    IF \A k \in i .. Len(pc) : ProductViolations(pc[k], t) = << >>
    THEN << >>
    ELSE LET first == CHOOSE k \in i .. Len(pc) :
                        /\ ProductViolations(pc[k], t) # << >>
                        /\ \A m \in i .. (k - 1) : ProductViolations(pc[m], t) = << >>
         IN  << [ Index |-> first - 1, ID |-> pc[first].ID,
                  Errors |-> ProductViolations(pc[first], t) ] >>

\* the entries ProductCollection.Validate appends for the items from index i
\* (1-based here, i-1 in the code) on
RECURSIVE CollectionViolationsFrom(_, _, _)
CollectionViolationsFrom(pc, i, t) ==
    IF i > Len(pc) THEN << >>
    ELSE LET errors == ProductViolations(pc[i], t)
         IN  (IF errors # << >>
              THEN << [ Index |-> i - 1, ID |-> pc[i].ID, Errors |-> errors ] >>
              ELSE << >>)
             \o CollectionViolationsFrom(pc, i + 1, t)

\* ProductCollection.Validate: one entry per invalid item, none when valid
CollectionViolations(pc, t) == CollectionViolationsFrom(pc, 1, t)

----------------------------------------------------------------------------
(* Errors. An error is the chain of messages from the outermost wrapper to *)
(* the cause, the strategy name(s) it carries and the per-item violations. *)

MkError(msgs, strategies, items) ==
    [ Msgs |-> msgs, Strategies |-> strategies, Items |-> items ]

NoError == MkError(<< >>, << >>, << >>)

\* fmt.Errorf("<msg>: %w", e)
Wrap(msg, e) == [ e EXCEPT !.Msgs = << msg >> \o @ ]

----------------------------------------------------------------------------
(* The heap of backing arrays *)

\* the lowest address that holds no array
Alloc(h) ==
    CHOOSE a \in 1 .. (Cardinality(DOMAIN h) + 1) :
        /\ a \notin DOMAIN h
        /\ \A b \in 1 .. (a - 1) : b \in DOMAIN h

Store(h, a, seq) ==
    [ x \in (DOMAIN h) \cup {a} |-> IF x = a THEN seq ELSE h[x] ]

\* the arrays the caller still refers to
Reclaim(h, keep) == [ x \in (DOMAIN h) \cap keep |-> h[x] ]

\* a Copy that returns the slice it was given, over the same array
ProductCollectionCopyShared(h, ref) == [ heap |-> h, ref |-> ref ]

\* a Copy that allocates one item too few
ProductCollectionCopyShort(h, ref) ==
    IF ref = NilRef THEN [ heap |-> h, ref |-> NilRef ]
    ELSE [ heap |-> Store(h, Alloc(h), SubSeq(h[ref], 1, Len(h[ref]) - 1)),
           ref |-> Alloc(h) ]

\* ProductCollection.Copy: a new array holding the same items
ProductCollectionCopy(h, ref) ==
    IF ref = NilRef THEN [ heap |-> h, ref |-> NilRef ]
    ELSE LET copied == Alloc(h)
         IN  [ heap |-> Store(h, copied, h[ref]), ref |-> copied ]

\* ProductCollection{}: a new, empty, non-nil collection
EmptyCollection(h) == [ heap |-> Store(h, Alloc(h), << >>), ref |-> Alloc(h) ]

\* len(products): 0 for a nil slice
LenOf(h, ref) == IF ref = NilRef THEN 0 ELSE Len(h[ref])

----------------------------------------------------------------------------
(* Strings: a name is its sequence of bytes *)

\* strings.ToLower on ASCII
ToLower(name) ==
    [ i \in DOMAIN name |->
        IF name[i] >= 65 /\ name[i] <= 90 THEN name[i] + 32 ELSE name[i] ]

\* the < of Go strings: byte-wise lexicographic
StringLess(x, y) ==
    \E k \in 1 .. (Len(y)) :
        /\ \A i \in 1 .. (k - 1) : i <= Len(x) /\ x[i] = y[i]
        /\ k - 1 <= Len(x)
        /\ (k > Len(x) \/ x[k] < y[k])

----------------------------------------------------------------------------
(* The less functions of the sorters *)

\* a PriceSorter that ignores its direction
PriceLessCheapestFirst(ascending, a, b) == a.Price < b.Price

\* PriceSorter
PriceLess(ascending, a, b) ==
    IF ascending THEN a.Price < b.Price ELSE a.Price > b.Price

\* a CreatedAtSorter without the tie-break on the id
CreatedAtLessNoTieBreak(ascending, a, b) ==
    IF ascending THEN a.CreatedAt < b.CreatedAt ELSE a.CreatedAt > b.CreatedAt

\* a CreatedAtSorter whose tie-break turns with the direction
CreatedAtLessTurnedTieBreak(ascending, a, b) ==
    IF a.CreatedAt # b.CreatedAt
    THEN (IF ascending THEN a.CreatedAt < b.CreatedAt
                       ELSE a.CreatedAt > b.CreatedAt)
    ELSE (IF ascending THEN a.ID < b.ID ELSE a.ID > b.ID)

\* CreatedAtSorter
CreatedAtLess(ascending, a, b) ==
    IF a.CreatedAt # b.CreatedAt
    THEN (IF ascending THEN a.CreatedAt < b.CreatedAt
                       ELSE a.CreatedAt > b.CreatedAt)
    ELSE a.ID < b.ID

\* a NameSorter that compares the names as they are written
NameLessCaseSensitive(a, b) ==
    IF a.Name # b.Name
    THEN StringLess(a.Name, b.Name)
    ELSE a.ID < b.ID

\* NameSorter
NameLess(a, b) ==
    IF ToLower(a.Name) # ToLower(b.Name)
    THEN StringLess(ToLower(a.Name), ToLower(b.Name))
    ELSE a.ID < b.ID

\* a SalesConversionRatioSorter without the secondary key
SalesConversionRatioLessNoSales(a, b) ==
    IF ~RatioEq(SalesConversionRatio(a), SalesConversionRatio(b))
    THEN RatioGt(SalesConversionRatio(a), SalesConversionRatio(b))
    ELSE a.ID < b.ID

\* SalesConversionRatioSorter
SalesConversionRatioLess(a, b) ==
    IF ~RatioEq(SalesConversionRatio(a), SalesConversionRatio(b))
    THEN RatioGt(SalesConversionRatio(a), SalesConversionRatio(b))
    ELSE IF a.SalesCount # b.SalesCount
         THEN a.SalesCount > b.SalesCount
         ELSE a.ID < b.ID

\* a PopularitySorter without the tie-break on the id
PopularityLessNoTieBreak(a, b) ==
    IF a.ViewsCount # b.ViewsCount
    THEN a.ViewsCount > b.ViewsCount
    ELSE a.SalesCount > b.SalesCount

\* a PopularitySorter that puts the fewest views first
PopularityLessFewestFirst(a, b) ==
    IF a.ViewsCount # b.ViewsCount
    THEN a.ViewsCount < b.ViewsCount
    ELSE IF a.SalesCount # b.SalesCount
         THEN a.SalesCount > b.SalesCount
         ELSE a.ID < b.ID

\* PopularitySorter
PopularityLess(a, b) ==
    IF a.ViewsCount # b.ViewsCount
    THEN a.ViewsCount > b.ViewsCount
    ELSE IF a.SalesCount # b.SalesCount
         THEN a.SalesCount > b.SalesCount
         ELSE a.ID < b.ID

\* a RevenueSorter that compares the prices instead of the revenues
RevenueLessByPrice(a, b) ==
    IF a.Price # b.Price
    THEN a.Price > b.Price
    ELSE IF a.SalesCount # b.SalesCount
         THEN a.SalesCount > b.SalesCount
         ELSE a.ID < b.ID

\* RevenueSorter
RevenueLess(a, b) ==
    IF RevenueGenerated(a) # RevenueGenerated(b)
    THEN RevenueGenerated(a) > RevenueGenerated(b)
    ELSE IF a.SalesCount # b.SalesCount
         THEN a.SalesCount > b.SalesCount
         ELSE a.ID < b.ID

\* a sorter object: its type and, for the two directed ones, its direction
Sorter(kind, ascending) == [ kind |-> kind, ascending |-> ascending ]

\* the less function a sorter hands to sort.Slice, applied to two items
SorterLess(sorter, a, b) ==
    CASE sorter.kind = "PriceSorter" -> PriceLess(sorter.ascending, a, b)
      [] sorter.kind = "CreatedAtSorter" -> CreatedAtLess(sorter.ascending, a, b)
      [] sorter.kind = "NameSorter" -> NameLess(a, b)
      [] sorter.kind = "SalesConversionRatioSorter" -> SalesConversionRatioLess(a, b)
      [] sorter.kind = "PopularitySorter" -> PopularityLess(a, b)
      [] sorter.kind = "RevenueSorter" -> RevenueLess(a, b)

----------------------------------------------------------------------------
(* sort.Slice *)

\* the arrangements of the positions 1..n
Arrangements(n) == Permutations(1 .. n)

Arrange(seq, f) == [ i \in 1 .. Len(seq) |-> seq[f[i]] ]

\* no item is less than one placed before it
IsOrdered(seq, sorter) ==
    \A i, j \in 1 .. Len(seq) : i < j => ~SorterLess(sorter, seq[j], seq[i])

\* a sort that leaves the array as it is
SortSliceNothing(h, ref, sorter) == { h }

\* a sort that re-arranges the items that compare equal also when the array
\* is in order already
SortSliceRearranging(h, ref, sorter) ==
    { Store(h, ref, x) :
        x \in { y \in { Arrange(h[ref], f) : f \in Arrangements(Len(h[ref])) } :
                  IsOrdered(y, sorter) } }

\* a sort that loses an item: it writes the first item over the last
SortSliceOverwriting(h, ref, sorter) ==
    { Store(h, ref, [ i \in 1 .. Len(x) |-> IF i = Len(x) THEN x[1] ELSE x[i] ]) :
        x \in { y \in { Arrange(h[ref], f) : f \in Arrangements(Len(h[ref])) } :
                  IsOrdered(y, sorter) } }

\* sort.Slice(x, less) with the less function of sorter: the set of heaps it
\* may leave. The array x is re-arranged in place into an order without
\* inversion. The sort "is not guaranteed to be stable": among items neither
\* less than the other any order may come out (the library sorts up to 12
\* items by insertion and more by a pattern-defeating quicksort; the short
\* sequences of this model stand for both). Neither algorithm moves an item
\* of a slice in which it finds no inversion.
SortSlice(h, ref, sorter) ==
    IF IsOrdered(h[ref], sorter) THEN { h }
    ELSE { Store(h, ref, x) :
             x \in { y \in { Arrange(h[ref], f) : f \in Arrangements(Len(h[ref])) } :
                       IsOrdered(y, sorter) } }

----------------------------------------------------------------------------
(* The sorters: Sort(ctx, products) as the set of [heap, ref] it may return *)

\* a Sort that sorts the slice it was given, without a copy
SortedInPlace(h, ref, sorter) ==
    { [ heap |-> h2, ref |-> ref ] : h2 \in SortSlice(h, ref, sorter) }

\* sorted := products.Copy(); sort.Slice(sorted, less); return sorted, nil
SortedCopies(h, ref, sorter) ==
    LET sorted == ProductCollectionCopy(h, ref)
    IN  { [ heap |-> h2, ref |-> sorted.ref ] :
            h2 \in SortSlice(sorted.heap, sorted.ref, sorter) }

PriceSorterSort(ascending, h, ref) ==
    IF LenOf(h, ref) = 0 THEN { EmptyCollection(h) }
    ELSE SortedCopies(h, ref, Sorter("PriceSorter", ascending))

CreatedAtSorterSort(ascending, h, ref) ==
    IF LenOf(h, ref) = 0 THEN { EmptyCollection(h) }
    ELSE SortedCopies(h, ref, Sorter("CreatedAtSorter", ascending))

NameSorterSort(h, ref) ==
    IF LenOf(h, ref) = 0 THEN { EmptyCollection(h) }
    ELSE SortedCopies(h, ref, Sorter("NameSorter", FALSE))

SalesConversionRatioSorterSort(h, ref) ==
    IF LenOf(h, ref) = 0 THEN { EmptyCollection(h) }
    ELSE SortedCopies(h, ref, Sorter("SalesConversionRatioSorter", FALSE))

PopularitySorterSort(h, ref) ==
    IF LenOf(h, ref) = 0 THEN { EmptyCollection(h) }
    ELSE SortedCopies(h, ref, Sorter("PopularitySorter", FALSE))

RevenueSorterSort(h, ref) ==
    IF LenOf(h, ref) = 0 THEN { EmptyCollection(h) }
    ELSE SortedCopies(h, ref, Sorter("RevenueSorter", FALSE))

\* Sorter.Sort, dispatched on the sorter's type
SorterSort(sorter, h, ref) ==
    CASE sorter.kind = "PriceSorter" -> PriceSorterSort(sorter.ascending, h, ref)
      [] sorter.kind = "CreatedAtSorter" -> CreatedAtSorterSort(sorter.ascending, h, ref)
      [] sorter.kind = "NameSorter" -> NameSorterSort(h, ref)
      [] sorter.kind = "SalesConversionRatioSorter" -> SalesConversionRatioSorterSort(h, ref)
      [] sorter.kind = "PopularitySorter" -> PopularitySorterSort(h, ref)
      [] sorter.kind = "RevenueSorter" -> RevenueSorterSort(h, ref)

\* Sorter.GetStrategy
SorterGetStrategy(sorter) ==
    CASE sorter.kind = "PriceSorter" ->
            (IF sorter.ascending THEN SortByPriceAsc ELSE SortByPriceDesc)
      [] sorter.kind = "CreatedAtSorter" ->
            (IF sorter.ascending THEN SortByCreatedAtAsc ELSE SortByCreatedAtDesc)
      [] sorter.kind = "NameSorter" -> SortByName
      [] sorter.kind = "SalesConversionRatioSorter" -> SortBySalesConversionRatio
      [] sorter.kind = "PopularitySorter" -> SortByPopularity
      [] sorter.kind = "RevenueSorter" -> SortByRevenue

\* a factory without the name strategy
CreateSorterWithoutName(strategy) ==
    CASE strategy = SortByPriceAsc ->
            [ sorter |-> << Sorter("PriceSorter", TRUE) >>, err |-> NoError ]
      [] strategy = SortByPriceDesc ->
            [ sorter |-> << Sorter("PriceSorter", FALSE) >>, err |-> NoError ]
      [] strategy = SortBySalesConversionRatio ->
            [ sorter |-> << Sorter("SalesConversionRatioSorter", FALSE) >>, err |-> NoError ]
      [] strategy = SortByCreatedAtDesc ->
            [ sorter |-> << Sorter("CreatedAtSorter", FALSE) >>, err |-> NoError ]
      [] strategy = SortByCreatedAtAsc ->
            [ sorter |-> << Sorter("CreatedAtSorter", TRUE) >>, err |-> NoError ]
      [] strategy = SortByPopularity ->
            [ sorter |-> << Sorter("PopularitySorter", FALSE) >>, err |-> NoError ]
      [] strategy = SortByRevenue ->
            [ sorter |-> << Sorter("RevenueSorter", FALSE) >>, err |-> NoError ]
      [] OTHER ->
            [ sorter |-> << >>,
              err |-> MkError(<< "unsupported sort strategy" >>, << strategy >>, << >>) ]

\* DefaultSorterFactory.CreateSorter: <<sorter>> and no error, or << >> and one
CreateSorter(strategy) ==
    CASE strategy = SortByPriceAsc ->
            [ sorter |-> << Sorter("PriceSorter", TRUE) >>, err |-> NoError ]
      [] strategy = SortByPriceDesc ->
            [ sorter |-> << Sorter("PriceSorter", FALSE) >>, err |-> NoError ]
      [] strategy = SortBySalesConversionRatio ->
            [ sorter |-> << Sorter("SalesConversionRatioSorter", FALSE) >>, err |-> NoError ]
      [] strategy = SortByCreatedAtDesc ->
            [ sorter |-> << Sorter("CreatedAtSorter", FALSE) >>, err |-> NoError ]
      [] strategy = SortByCreatedAtAsc ->
            [ sorter |-> << Sorter("CreatedAtSorter", TRUE) >>, err |-> NoError ]
      [] strategy = SortByPopularity ->
            [ sorter |-> << Sorter("PopularitySorter", FALSE) >>, err |-> NoError ]
      [] strategy = SortByRevenue ->
            [ sorter |-> << Sorter("RevenueSorter", FALSE) >>, err |-> NoError ]
      [] strategy = SortByName ->
            [ sorter |-> << Sorter("NameSorter", FALSE) >>, err |-> NoError ]
      [] OTHER ->
            [ sorter |-> << >>,
              err |-> MkError(<< "unsupported sort strategy" >>, << strategy >>, << >>) ]

----------------------------------------------------------------------------
(* sort_result.go *)

\* NewSortResult; t is time.Now()
NewSortResult(h, ref, strategy, executionTime, t) ==
    [ Products |-> ref, Strategy |-> strategy, ExecutionTime |-> executionTime,
      ProductCount |-> LenOf(h, ref), SortedAt |-> t ]

\* a NewBatchSortResult that leaves the product count at zero
NewBatchSortResultCountUnset(results, totalTime, t) ==
    { [ Results |-> results, TotalTime |-> totalTime,
        StrategyCount |-> Cardinality(DOMAIN results),
        ProductCount |-> 0, ExecutedAt |-> t ] }

\* NewBatchSortResult: the product count is that of the entry the iteration
\* over the map meets first, which may be any of them. The set of results.
NewBatchSortResult(results, totalTime, t) ==
    { [ Results |-> results, TotalTime |-> totalTime,
        StrategyCount |-> Cardinality(DOMAIN results),
        ProductCount |-> n, ExecutedAt |-> t ] :
        n \in IF DOMAIN results = {} THEN {0}
              ELSE { results[s].ProductCount : s \in DOMAIN results } }

\* SortResult.Validate on the pointer sr (<< >> is nil): the error it returns
SortResultValidate(h, sr) ==
    IF sr = << >>
    THEN MkError(<< "sort result cannot be nil" >>, << >>, << >>)
    ELSE IF ~IsValid(sr[1].Strategy)
    THEN MkError(<< "invalid sort strategy" >>, << sr[1].Strategy >>, << >>)
    ELSE IF sr[1].ProductCount # LenOf(h, sr[1].Products)
    THEN MkError(<< "product count mismatch" >>, << >>, << >>)
    ELSE IF sr[1].ExecutionTime < 0
    THEN MkError(<< "execution time cannot be negative" >>, << >>, << >>)
    ELSE IF sr[1].SortedAt = 0
    THEN MkError(<< "sorted timestamp must be set" >>, << >>, << >>)
    ELSE NoError

\* BatchSortResult.Validate on the pointer bsr (<< >> is nil): the errors it
\* may return. The map holds the results themselves, each stored from a call
\* that returned a result; the range over the map meets the entries in any
\* order and returns at the first invalid one.
BatchSortResultValidate(h, bsr) ==
    IF bsr = << >>
    THEN { MkError(<< "batch sort result cannot be nil" >>, << >>, << >>) }
    ELSE IF DOMAIN bsr[1].Results = {}
    THEN { MkError(<< "batch sort result must contain at least one result" >>,
                   << >>, << >>) }
    ELSE IF bsr[1].StrategyCount # Cardinality(DOMAIN bsr[1].Results)
    THEN { MkError(<< "strategy count mismatch" >>, << >>, << >>) }
    ELSE IF \A s \in DOMAIN bsr[1].Results :
              SortResultValidate(h, << bsr[1].Results[s] >>) = NoError
    THEN { NoError }
    ELSE { Wrap("invalid result for strategy",
                SortResultValidate(h, << bsr[1].Results[s] >>)) :
             s \in { x \in DOMAIN bsr[1].Results :
                       SortResultValidate(h, << bsr[1].Results[x] >>) # NoError } }

----------------------------------------------------------------------------
(* service.go *)

\* ProductCollection.Validate as an error value
ProductCollectionValidate(pc, t) ==
    LET violations == CollectionViolations(pc, t)
    IN  IF violations = << >> THEN NoError
        ELSE MkError(<< "collection validation failed" >>, << >>, violations)

\* SortStrategySet.Validate
SortStrategySetValidate(strategies) ==
    IF \E i \in DOMAIN strategies : ~IsValid(strategies[i])
    THEN MkError(<< "invalid sort strategies" >>,
                 SelectSeq(strategies, LAMBDA x : ~IsValid(x)), << >>)
    ELSE NoError

\* a validateSortRequest that leaves the strategy to the factory
validateSortRequestNoStrategyCheck(h, ref, strategy, t) ==
    IF ref = NilRef
    THEN MkError(<< "products collection cannot be nil" >>, << >>, << >>)
    ELSE LET verr == ProductCollectionValidate(h[ref], t)
         IN  IF verr # NoError
             THEN Wrap("product validation failed", verr)
             ELSE NoError

\* a validateSortRequest that takes an empty sequence for an absent one
validateSortRequestEmptyIsAbsent(h, ref, strategy, t) ==
    IF LenOf(h, ref) = 0
    THEN MkError(<< "products collection cannot be nil" >>, << >>, << >>)
    ELSE IF ~IsValid(strategy)
    THEN MkError(<< "invalid sort strategy" >>, << strategy >>, << >>)
    ELSE LET verr == ProductCollectionValidate(h[ref], t)
         IN  IF verr # NoError
             THEN Wrap("product validation failed", verr)
             ELSE NoError

\* a validateSortRequest that trusts the items once an earlier call has left
\* a result on the heap
validateSortRequestTrustingAfterSuccess(h, ref, strategy, t) ==
    IF ref = NilRef
    THEN MkError(<< "products collection cannot be nil" >>, << >>, << >>)
    ELSE IF ~IsValid(strategy)
    THEN MkError(<< "invalid sort strategy" >>, << strategy >>, << >>)
    ELSE LET verr == ProductCollectionValidate(h[ref], t)
         IN  IF verr # NoError /\ Cardinality(DOMAIN h) <= 2
             THEN Wrap("product validation failed", verr)
             ELSE NoError

\* a validateSortRequest that looks at the items before the strategy
validateSortRequestItemsFirst(h, ref, strategy, t) ==
    IF ref = NilRef
    THEN MkError(<< "products collection cannot be nil" >>, << >>, << >>)
    ELSE LET verr == ProductCollectionValidate(h[ref], t)
         IN  IF verr # NoError
             THEN Wrap("product validation failed", verr)
             ELSE IF ~IsValid(strategy)
             THEN MkError(<< "invalid sort strategy" >>, << strategy >>, << >>)
             ELSE NoError

validateSortRequest(h, ref, strategy, t) ==
    IF ref = NilRef
    THEN MkError(<< "products collection cannot be nil" >>, << >>, << >>)
    ELSE IF ~IsValid(strategy)
    THEN MkError(<< "invalid sort strategy" >>, << strategy >>, << >>)
    ELSE LET verr == ProductCollectionValidate(h[ref], t)
         IN  IF verr # NoError
             THEN Wrap("product validation failed", verr)
             ELSE NoError

\* a validateBatchSortRequest that leaves each strategy to the sort that uses it
validateBatchSortRequestNoSetValidation(h, ref, strategies, t) ==
    IF ref = NilRef
    THEN MkError(<< "products collection cannot be nil" >>, << >>, << >>)
    ELSE IF Len(strategies) = 0
    THEN MkError(<< "strategies set cannot be empty" >>, << >>, << >>)
    ELSE LET verr == ProductCollectionValidate(h[ref], t)
         IN  IF verr # NoError
             THEN Wrap("product validation failed", verr)
             ELSE NoError

\* a validateBatchSortRequest that leaves the set to SortStrategySet.Validate
validateBatchSortRequestNoEmptyCheck(h, ref, strategies, t) ==
    IF ref = NilRef
    THEN MkError(<< "products collection cannot be nil" >>, << >>, << >>)
    ELSE IF SortStrategySetValidate(strategies) # NoError
    THEN Wrap("strategies validation failed", SortStrategySetValidate(strategies))
    ELSE LET verr == ProductCollectionValidate(h[ref], t)
         IN  IF verr # NoError
             THEN Wrap("product validation failed", verr)
             ELSE NoError

validateBatchSortRequest(h, ref, strategies, t) ==
    IF ref = NilRef
    THEN MkError(<< "products collection cannot be nil" >>, << >>, << >>)
    ELSE IF Len(strategies) = 0
    THEN MkError(<< "strategies set cannot be empty" >>, << >>, << >>)
    ELSE IF SortStrategySetValidate(strategies) # NoError
    THEN Wrap("strategies validation failed", SortStrategySetValidate(strategies))
    ELSE LET verr == ProductCollectionValidate(h[ref], t)
         IN  IF verr # NoError
             THEN Wrap("product validation failed", verr)
             ELSE NoError

\* what a call leaves: the heap, the result pointer and the error
Outcome(h, res, e) == [ heap |-> h, result |-> res, err |-> e ]

\* DefaultService.SortProducts: the set of outcomes of one call
SortProductsCall(h, ref, strategy, t) ==
    LET verr == validateSortRequest(h, ref, strategy, t)
        created == CreateSorter(strategy)
    IN  IF verr # NoError
        THEN { Outcome(h, << >>, Wrap("sort request validation failed", verr)) }
        ELSE IF created.err # NoError
        THEN { Outcome(h, << >>, Wrap("failed to create sorter for strategy",
                                      created.err)) }
        ELSE { Outcome(o.heap, << NewSortResult(o.heap, o.ref, strategy, 0, t) >>,
                       NoError) :
                 o \in SorterSort(created.sorter[1], h, ref) }

\* a loop of BatchSort that hands each sort the output of the one before
RECURSIVE BatchLoopChained(_, _, _, _, _, _)
BatchLoopChained(h, ref, strategies, i, results, t) ==
    IF i > Len(strategies)
    THEN { [ heap |-> h, results |-> results, err |-> NoError ] }
    ELSE UNION {
           IF o.err # NoError
           THEN { [ heap |-> o.heap, results |-> results,
                    err |-> Wrap("batch sort failed for strategy", o.err) ] }
           ELSE BatchLoopChained(o.heap, o.result[1].Products, strategies, i + 1,
                          [ s \in (DOMAIN results) \cup { strategies[i] } |->
                              IF s = strategies[i] THEN o.result[1] ELSE results[s] ],
                          t) :
           o \in SortProductsCall(h, ref, strategies[i], t) }

\* the loop of BatchSort over the strategies from position i on, with the
\* map filled so far: the set of [heap, results, err] it may end with
RECURSIVE BatchLoop(_, _, _, _, _, _)
BatchLoop(h, ref, strategies, i, results, t) ==
    IF i > Len(strategies)
    THEN { [ heap |-> h, results |-> results, err |-> NoError ] }
    ELSE UNION {
           IF o.err # NoError
           THEN { [ heap |-> o.heap, results |-> results,
                    err |-> Wrap("batch sort failed for strategy", o.err) ] }
           ELSE BatchLoop(o.heap, ref, strategies, i + 1,
                          [ s \in (DOMAIN results) \cup { strategies[i] } |->
                              IF s = strategies[i] THEN o.result[1] ELSE results[s] ],
                          t) :
           o \in SortProductsCall(h, ref, strategies[i], t) }

\* the arrays a result map refers to
ResultRefs(results) == { results[s].Products : s \in DOMAIN results }

\* DefaultService.BatchSort: the set of outcomes of one call
BatchSortCall(h, ref, strategies, t) ==
    IF validateBatchSortRequest(h, ref, strategies, t) # NoError
    THEN { Outcome(h, << >>, Wrap("batch sort request validation failed",
                                  validateBatchSortRequest(h, ref, strategies, t))) }
    ELSE UNION {
           IF l.err # NoError THEN { Outcome(l.heap, << >>, l.err) }
           ELSE { Outcome(l.heap, << b >>, NoError) :
                    b \in NewBatchSortResult(l.results, 0, t) } :
           l \in BatchLoop(h, ref, strategies, 1, << >>, t) }

\* DefaultService.ValidateProducts
ValidateProductsCall(h, ref, t) ==
    IF ref = NilRef
    THEN MkError(<< "products collection cannot be nil" >>, << >>, << >>)
    ELSE ProductCollectionValidate(h[ref], t)

----------------------------------------------------------------------------
(* The callers' data *)

\* Products a caller may hold. Among them: two that agree on every sort key
\* and differ in id and in the case of the name (b1, b2); equal conversion
\* ratio with different sales (b1, a3); equal revenue and equal views with
\* different sales (a3, a3x); no views at all (c1) next to views without
\* sales (c2); a name of which another is a proper prefix (c1: "bA", b2:
\* "b"); two different products under one id (a3, a3x), which agree
\* on name and creation time; one whose sales exceed its views, which
\* validation rejects (bad2).
Catalog ==
    { Product(1, << 66 >>, 100, 2, 1, 2),     \* b1
      Product(2, << 98 >>, 100, 2, 1, 2),     \* b2
      Product(3, << 97 >>, 200, 1, 2, 4),     \* a3
      Product(3, << 97 >>, 400, 1, 1, 4),     \* a3x
      Product(1, << 98, 65 >>, 0, 1, 0, 0),   \* c1
      Product(2, << 67 >>, 100, 2, 0, 2),     \* c2
      Product(2, << 98 >>, 100, 2, 2, 1) }    \* bad2

\* the strategy sets a caller may pass to BatchSort
StrategySets ==
    UNION { [ 1 .. n -> BatchStrategyNames ] : n \in 0 .. MaxStrategies }

\* the sequences a caller may pass
Inputs == UNION { [ 1 .. n -> Catalog ] : n \in 0 .. MaxLen }

NoCall == [ op |-> "none", strategy |-> "", strategies |-> << >> ]

Call(op, strategy, strategies) ==
    [ op |-> op, strategy |-> strategy, strategies |-> strategies ]

\* the contents of the caller's sequence
Contents(h, ref) == IF ref = NilRef THEN << >> ELSE h[ref]

Init ==
    /\ now = 3
    /\ \/ /\ products = NilRef
          /\ heap = << >>
          /\ original = << >>
       \/ \E input \in Inputs :
            /\ products = 1
            /\ heap = << input >>
            /\ original = input
    /\ call = NoCall
    /\ result = << >>
    /\ batch = << >>
    /\ err = NoError
    /\ prev = << >>

\* the caller calls SortProducts(ctx, products, strategy)
SortProducts(strategy) ==
    /\ call.op = "none"
    /\ \E o \in SortProductsCall(Reclaim(heap, {products}), products, strategy, now) :
         /\ heap' = o.heap
         /\ result' = o.result
         /\ err' = o.err
    /\ original' = Contents(heap, products)
    /\ call' = Call("SortProducts", strategy, << >>)
    /\ batch' = << >>
    /\ prev' = << >>
    /\ UNCHANGED << products, now >>

\* the caller passes the sequence of the result it holds to SortProducts
\* again, with the strategy of that result
SortAgain ==
    /\ call.op = "SortProducts"
    /\ result # << >>
    /\ \E o \in SortProductsCall(Reclaim(heap, {result[1].Products}),
                                result[1].Products, result[1].Strategy, now) :
         /\ heap' = o.heap
         /\ result' = o.result
         /\ err' = o.err
    /\ products' = result[1].Products
    /\ original' = heap[result[1].Products]
    /\ call' = Call("SortAgain", result[1].Strategy, << >>)
    /\ batch' = << >>
    /\ prev' = << >>
    /\ UNCHANGED now

\* seq with the items at positions i and j exchanged
Exchange(seq, i, j) ==
    [ k \in 1 .. Len(seq) |->
        IF k = i THEN seq[j] ELSE IF k = j THEN seq[i] ELSE seq[k] ]

\* the caller exchanges two items of its sequence and calls SortProducts with
\* the strategy of the result it holds, keeping that result's sequence. Every
\* re-arrangement of a sequence is a chain of such exchanges.
SortPermuted ==
    /\ call.op = "SortProducts"
    /\ result # << >>
    /\ \E i, j \in 1 .. Len(heap[products]) :
         /\ i < j
         /\ original' = Exchange(heap[products], i, j)
         /\ \E o \in SortProductsCall(Store(Reclaim(heap, {products}), products,
                                           Exchange(heap[products], i, j)),
                                     products, result[1].Strategy, now) :
              /\ heap' = o.heap
              /\ result' = o.result
              /\ err' = o.err
    /\ prev' = << heap[result[1].Products] >>
    /\ call' = Call("SortPermuted", result[1].Strategy, << >>)
    /\ batch' = << >>
    /\ UNCHANGED << products, now >>

\* the caller calls ValidateProducts(ctx, products)
ValidateProducts ==
    /\ call.op = "none"
    /\ err' = ValidateProductsCall(heap, products, now)
    /\ heap' = Reclaim(heap, {products})
    /\ original' = Contents(heap, products)
    /\ call' = Call("ValidateProducts", "", << >>)
    /\ result' = << >>
    /\ batch' = << >>
    /\ prev' = << >>
    /\ UNCHANGED << products, now >>

\* the caller calls BatchSort(ctx, products, strategies)
BatchSort(strategies) ==
    /\ call.op = "none"
    /\ LenOf(heap, products) <= MaxBatchLen
    /\ \E o \in BatchSortCall(heap, products, strategies, now) :
         /\ heap' = Reclaim(o.heap,
                            {products} \cup
                            (IF o.result = << >> THEN {}
                             ELSE ResultRefs(o.result[1].Results)))
         /\ batch' = o.result
         /\ err' = o.err
    /\ original' = Contents(heap, products)
    /\ call' = Call("BatchSort", "", strategies)
    /\ result' = << >>
    /\ prev' = << >>
    /\ UNCHANGED << products, now >>

Next ==
    \/ \E strategy \in StrategyNames : SortProducts(strategy)
    \/ \E strategies \in StrategySets : BatchSort(strategies)
    \/ SortAgain
    \/ SortPermuted
    \/ ValidateProducts

Spec == Init /\ [][Next]_vars

----------------------------------------------------------------------------
(* Validation on its own: callers that hold items of every kind *)

\* a name of n bytes
NameOfLength(n) == [ i \in 1 .. n |-> 97 ]

\* the values of each field on both sides of every check of Product.Validate
ItemIDs == { -1, 0, 1 }
ItemNames ==
    { << >>, << 97 >>, NameOfLength(MaxNameLen), NameOfLength(MaxNameLen + 1) }
ItemPrices == { -1, 0, MaxPrice, MaxPrice + 1 }
\* the zero time, a past instant, the current instant and a future one
ItemTimes == { 0, 1, 3, 4 }
ItemCounts == { -1, 0, 1 }

Items ==
    { Product(id, name, price, created, sales, views) :
        id \in ItemIDs, name \in ItemNames, price \in ItemPrices,
        created \in ItemTimes, sales \in ItemCounts, views \in ItemCounts }

\* items for the longer sequences: a valid one, one that breaks one rule, one
\* that breaks four and one that breaks six
Suspects ==
    { Product(1, << 97 >>, 0, 1, 0, 0),
      Product(0, << 97 >>, 0, 1, 0, 0),
      Product(1, NameOfLength(MaxNameLen + 1), MaxPrice + 1, 4, -1, 0),
      Product(0, << >>, -1, 0, 1, -1) }

\* one item of any kind, or up to MaxLen of the suspects
ItemInputs ==
    { << p >> : p \in Items }
        \cup UNION { [ 1 .. n -> Suspects ] : n \in 2 .. MaxLen }

ItemInit ==
    /\ now = 3
    /\ \E input \in ItemInputs :
         /\ products = 1
         /\ heap = << input >>
         /\ original = input
    /\ call = NoCall
    /\ result = << >>
    /\ batch = << >>
    /\ err = NoError
    /\ prev = << >>

ItemNext ==
    \/ ValidateProducts
    \/ SortProducts(SortByName)

ItemSpec == ItemInit /\ [][ItemNext]_vars

----------------------------------------------------------------------------
(* Concurrent callers over one shared sequence. In this specification the    *)
(* variables call, result, batch and err hold one value per caller; a call   *)
(* record carries the position of its goroutine (pc), the index of the       *)
(* strategy a BatchSort is at (i), the slice its sorter has copied (sorted)  *)
(* and the map a BatchSort has filled so far (results). A step is one        *)
(* access to the heap: the validation reads the shared array, Copy reads it  *)
(* and allocates, sort.Slice writes the array it is given.                   *)

\* most goroutines that call the service at the same time
MaxCallers == 2

Callers == 1 .. MaxCallers

\* the shared sequences: none, two items that the price strategy exchanges
\* and the ratio strategy leaves, three items with a tie in price, and one
\* with an item that validation rejects
SharedInputs ==
    { << >>,
      << Product(3, << 97 >>, 200, 1, 2, 4), Product(1, << 66 >>, 100, 2, 1, 2) >>,
      << Product(2, << 98 >>, 100, 2, 1, 2), Product(3, << 97 >>, 200, 1, 2, 4),
         Product(1, << 66 >>, 100, 2, 1, 2) >>,
      << Product(1, << 66 >>, 100, 2, 1, 2), Product(2, << 98 >>, 100, 2, 2, 1) >> }

Running(op, strategy, strategies, pc) ==
    [ op |-> op, strategy |-> strategy, strategies |-> strategies,
      pc |-> pc, i |-> 1, sorted |-> NilRef, results |-> << >> ]

\* the calls a goroutine may make
ConcurrentCalls ==
    { Running("SortProducts", s, << >>, "validate") :
        s \in { SortByPriceAsc, SortBySalesConversionRatio, "invalid_strategy" } }
    \cup { Running("BatchSort", "", << SortByPriceAsc, SortByName >>, "batch validate") }

ConcurrentInit ==
    /\ now = 3
    /\ \E input \in SharedInputs :
         /\ products = 1
         /\ heap = << input >>
         /\ original = input
    /\ call \in [ Callers -> ConcurrentCalls ]
    /\ result = [ c \in Callers |-> << >> ]
    /\ batch = [ c \in Callers |-> << >> ]
    /\ err = [ c \in Callers |-> NoError ]
    /\ prev = << >>

\* the strategy the SortProducts of caller c runs with
StrategyOf(c) ==
    IF call[c].op = "BatchSort" THEN call[c].strategies[call[c].i]
    ELSE call[c].strategy

\* SortProducts of caller c returns the error e: a SortProducts call ends
\* with it, a BatchSort call wraps it and ends
Fails(c, e) ==
    /\ err' = [ err EXCEPT ![c] =
                  IF call[c].op = "BatchSort"
                  THEN Wrap("batch sort failed for strategy", e) ELSE e ]
    /\ call' = [ call EXCEPT ![c].pc = "done" ]
    /\ UNCHANGED << heap, result, batch >>

\* SortProducts of caller c returns the result of the slice ref of heap h: a
\* SortProducts call ends with it, a BatchSort call stores it under the
\* strategy and goes on to the next one
Returns(c, h, ref) ==
    LET r == NewSortResult(h, ref, StrategyOf(c), 0, now)
    IN  /\ heap' = h
        /\ IF call[c].op = "BatchSort"
           THEN /\ call' = [ call EXCEPT
                               ![c].results =
                                   [ s \in (DOMAIN call[c].results) \cup { StrategyOf(c) } |->
                                       IF s = StrategyOf(c) THEN r ELSE call[c].results[s] ],
                               ![c].i = @ + 1,
                               ![c].sorted = NilRef,
                               ![c].pc = IF call[c].i + 1 > Len(call[c].strategies)
                                         THEN "finish" ELSE "validate" ]
                /\ UNCHANGED result
           ELSE /\ call' = [ call EXCEPT ![c].pc = "done", ![c].sorted = NilRef ]
                /\ result' = [ result EXCEPT ![c] = << r >> ]
        /\ UNCHANGED << batch, err >>

\* BatchSort of caller c validates its request
BatchValidates(c) ==
    /\ call[c].pc = "batch validate"
    /\ LET verr == validateBatchSortRequest(heap, products, call[c].strategies, now)
       IN  IF verr # NoError
           THEN /\ err' = [ err EXCEPT ![c] =
                              Wrap("batch sort request validation failed", verr) ]
                /\ call' = [ call EXCEPT ![c].pc = "done" ]
           ELSE /\ call' = [ call EXCEPT ![c].pc = "validate" ]
                /\ UNCHANGED err
    /\ UNCHANGED << heap, products, original, now, result, batch, prev >>

\* SortProducts of caller c validates its request and creates the sorter
Validates(c) ==
    /\ call[c].pc = "validate"
    /\ LET verr == validateSortRequest(heap, products, StrategyOf(c), now)
           created == CreateSorter(StrategyOf(c))
       IN  IF verr # NoError
           THEN Fails(c, Wrap("sort request validation failed", verr))
           ELSE IF created.err # NoError
           THEN Fails(c, Wrap("failed to create sorter for strategy", created.err))
           ELSE /\ call' = [ call EXCEPT ![c].pc = "copy" ]
                /\ UNCHANGED << heap, result, batch, err >>
    /\ UNCHANGED << products, original, now, prev >>

\* the sorter of caller c returns a new empty collection for an empty
\* sequence, and otherwise copies the sequence
Copies(c) ==
    /\ call[c].pc = "copy"
    /\ IF LenOf(heap, products) = 0
       THEN Returns(c, EmptyCollection(heap).heap, EmptyCollection(heap).ref)
       ELSE /\ heap' = ProductCollectionCopy(heap, products).heap
            /\ call' = [ call EXCEPT
                           ![c].sorted = ProductCollectionCopy(heap, products).ref,
                           ![c].pc = "sort" ]
            /\ UNCHANGED << result, batch, err >>
    /\ UNCHANGED << products, original, now, prev >>

\* the sorter of caller c sorts the slice it holds, and SortProducts returns
Sorts(c) ==
    /\ call[c].pc = "sort"
    /\ \E h \in SortSlice(heap, call[c].sorted,
                          CreateSorter(StrategyOf(c)).sorter[1]) :
         Returns(c, h, call[c].sorted)
    /\ UNCHANGED << products, original, now, prev >>

\* BatchSort of caller c returns the map it has filled
BatchFinishes(c) ==
    /\ call[c].pc = "finish"
    /\ \E b \in NewBatchSortResult(call[c].results, 0, now) :
         batch' = [ batch EXCEPT ![c] = << b >> ]
    /\ call' = [ call EXCEPT ![c].pc = "done" ]
    /\ UNCHANGED << heap, products, original, now, result, err, prev >>

ConcurrentNext ==
    \E c \in Callers :
        \/ BatchValidates(c)
        \/ Validates(c)
        \/ Copies(c)
        \/ Sorts(c)
        \/ BatchFinishes(c)

ConcurrentSpec == ConcurrentInit /\ [][ConcurrentNext]_vars

----------------------------------------------------------------------------
(* The registry and the factory on their own: callers that ask about names. *)
(* In this specification result holds the value returned, whatever its kind. *)

\* DefaultSorterFactory.GetSupportedStrategies, which the service hands on
GetSupportedStrategies == AllSortStrategies

\* SortStrategySet.Contains
Contains(set, strategy) == \E i \in DOMAIN set : set[i] = strategy

\* DefaultSorterFactory.IsSupported
IsSupported(strategy) == CreateSorter(strategy).err = NoError

\* the names a caller may ask about: the registered ones, the unregistered
\* ones of the tests, and names close to registered ones
AskedNames ==
    { AllSortStrategies[i] : i \in DOMAIN AllSortStrategies }
        \cup { "", "invalid_strategy", "random_text", "unknown", "invalid",
               "unsupported" }
        \cup { "PRICE_ASC", "Price_Asc", "price_asc ", " price_asc", "price",
               "price-asc", "priceasc", "asc", "NAME", "Name", "names",
               "created_at", "sales_conversion", "revenue_desc",
               "popularity_desc", "SortByName" }

RegistryInit ==
    /\ now = 3
    /\ products = 1
    /\ heap = << << Product(3, << 97 >>, 200, 1, 2, 4),
                    Product(1, << 66 >>, 100, 2, 1, 2) >> >>
    /\ original = heap[1]
    /\ call = NoCall
    /\ result = << >>
    /\ batch = << >>
    /\ err = NoError
    /\ prev = << >>

\* a call that touches no product returns value and e
Answers(op, strategy, value, e) ==
    /\ call' = Call(op, strategy, << >>)
    /\ result' = << value >>
    /\ err' = e
    /\ UNCHANGED << heap, products, original, now, batch, prev >>

AskIsValid(strategy) ==
    Answers("IsValid", strategy, IsValid(strategy), NoError)

AskGetSupportedStrategies ==
    Answers("GetSupportedStrategies", "", GetSupportedStrategies, NoError)

AskContains(strategy) ==
    Answers("Contains", strategy, Contains(GetSupportedStrategies, strategy), NoError)

AskCreateSorter(strategy) ==
    Answers("CreateSorter", strategy, CreateSorter(strategy).sorter,
            CreateSorter(strategy).err)

AskIsSupported(strategy) ==
    Answers("IsSupported", strategy, IsSupported(strategy), NoError)

RegistryNext ==
    \/ \E strategy \in AskedNames : AskIsValid(strategy)
    \/ AskGetSupportedStrategies
    \/ \E strategy \in AskedNames : AskContains(strategy)
    \/ \E strategy \in AskedNames : AskCreateSorter(strategy)
    \/ \E strategy \in AskedNames : AskIsSupported(strategy)
    \/ \E strategy \in AskedNames : SortProducts(strategy)

RegistrySpec == RegistryInit /\ [][RegistryNext]_vars

----------------------------------------------------------------------------
(* Callers that pass a context. In this specification a call record carries  *)
(* the state of the context the caller passed.                                *)

\* context.Background(), a context whose cancel function has been called,
\* and one whose deadline has passed
Contexts == { "live", "cancelled", "expired" }

\* a SortProducts that returns the error of a context that is done
SortProductsWithContextChecked(ctx, h, ref, strategy, t) ==
    IF ctx # "live"
    THEN { Outcome(h, << >>, MkError(<< "context done" >>, << >>, << >>)) }
    ELSE SortProductsCall(h, ref, strategy, t)

\* DefaultService.SortProducts(ctx, ...): ctx is handed to sorter.Sort, and
\* no Sort reads it
SortProductsWithContext(ctx, h, ref, strategy, t) ==
    SortProductsCall(h, ref, strategy, t)

\* DefaultService.BatchSort(ctx, ...): ctx is handed to each SortProducts
BatchSortWithContext(ctx, h, ref, strategies, t) ==
    BatchSortCall(h, ref, strategies, t)

ContextCall(op, ctx, strategy, strategies) ==
    [ op |-> op, ctx |-> ctx, strategy |-> strategy, strategies |-> strategies ]

\* the sequences a caller with a context may pass
ContextInputs == UNION { [ 1 .. n -> Catalog ] : n \in 0 .. MaxBatchLen }

ContextInit ==
    /\ now = 3
    /\ \E input \in ContextInputs :
         /\ products = 1
         /\ heap = << input >>
         /\ original = input
    /\ call = ContextCall("none", "live", "", << >>)
    /\ result = << >>
    /\ batch = << >>
    /\ err = NoError
    /\ prev = << >>

\* the caller calls SortProducts(ctx, products, strategy)
SortProductsUnder(ctx, strategy) ==
    /\ call.op = "none"
    /\ \E o \in SortProductsWithContext(ctx, heap, products, strategy, now) :
         /\ heap' = o.heap
         /\ result' = o.result
         /\ err' = o.err
    /\ call' = ContextCall("SortProducts", ctx, strategy, << >>)
    /\ batch' = << >>
    /\ UNCHANGED << products, original, now, prev >>

\* the caller calls BatchSort(ctx, products, strategies)
BatchSortUnder(ctx, strategies) ==
    /\ call.op = "none"
    /\ \E o \in BatchSortWithContext(ctx, heap, products, strategies, now) :
         /\ heap' = Reclaim(o.heap,
                            { products } \cup
                            (IF o.result = << >> THEN { }
                             ELSE ResultRefs(o.result[1].Results)))
         /\ batch' = o.result
         /\ err' = o.err
    /\ call' = ContextCall("BatchSort", ctx, "", strategies)
    /\ result' = << >>
    /\ UNCHANGED << products, original, now, prev >>

ContextNext ==
    \/ \E ctx \in Contexts, strategy \in StrategyNames :
         SortProductsUnder(ctx, strategy)
    \/ \E ctx \in Contexts, strategies \in StrategySets :
         BatchSortUnder(ctx, strategies)

ContextSpec == ContextInit /\ [][ContextNext]_vars

----------------------------------------------------------------------------
(* One service, call after call. The caller holds two sequences and every    *)
(* result it has been returned, and passes any of them to the next call. In  *)
(* this specification prev holds the number of calls made.                   *)

\* most calls a caller makes on one service
MaxCalls == 3

\* the sequences the caller starts with: empty, ordered and unordered, valid
\* and invalid
SessionInputs ==
    { << >>,
      << Product(3, << 97 >>, 200, 1, 2, 4), Product(1, << 66 >>, 100, 2, 1, 2) >>,
      << Product(1, << 66 >>, 100, 2, 1, 2), Product(3, << 97 >>, 200, 1, 2, 4) >>,
      << Product(2, << 98 >>, 100, 2, 1, 2), Product(1, << 66 >>, 100, 2, 1, 2) >>,
      << Product(1, << 66 >>, 100, 2, 1, 2), Product(2, << 98 >>, 100, 2, 2, 1) >>,
      << Product(2, << 98 >>, 100, 2, 2, 1) >> }

\* the strategies and the strategy sets the caller passes
SessionStrategies == { SortByPriceAsc, SortByName, "invalid_strategy" }
SessionStrategySets == { << SortByPriceAsc, SortByName >> }

SessionInit ==
    /\ now = 3
    /\ \E first, second \in SessionInputs : heap = << first, second >>
    /\ products = 1
    /\ original = heap[1]
    /\ call = NoCall
    /\ result = << >>
    /\ batch = << >>
    /\ err = NoError
    /\ prev = << 0 >>

\* the caller calls SortProducts with a sequence it holds
AnotherSortProducts(ref, strategy) ==
    /\ prev[1] < MaxCalls
    /\ \E o \in SortProductsCall(heap, ref, strategy, now) :
         /\ heap' = o.heap
         /\ result' = o.result
         /\ err' = o.err
    /\ products' = ref
    /\ original' = heap[ref]
    /\ call' = Call("SortProducts", strategy, << >>)
    /\ batch' = << >>
    /\ prev' = << prev[1] + 1 >>
    /\ UNCHANGED now

\* the caller calls BatchSort with a sequence it holds
AnotherBatchSort(ref, strategies) ==
    /\ prev[1] < MaxCalls
    /\ \E o \in BatchSortCall(heap, ref, strategies, now) :
         /\ heap' = Reclaim(o.heap,
                            (DOMAIN heap) \cup
                            (IF o.result = << >> THEN { }
                             ELSE ResultRefs(o.result[1].Results)))
         /\ batch' = o.result
         /\ err' = o.err
    /\ products' = ref
    /\ original' = heap[ref]
    /\ call' = Call("BatchSort", "", strategies)
    /\ result' = << >>
    /\ prev' = << prev[1] + 1 >>
    /\ UNCHANGED now

\* the caller calls ValidateProducts with a sequence it holds
AnotherValidateProducts(ref) ==
    /\ prev[1] < MaxCalls
    /\ err' = ValidateProductsCall(heap, ref, now)
    /\ products' = ref
    /\ original' = heap[ref]
    /\ call' = Call("ValidateProducts", "", << >>)
    /\ result' = << >>
    /\ batch' = << >>
    /\ prev' = << prev[1] + 1 >>
    /\ UNCHANGED << heap, now >>

SessionNext ==
    \/ \E ref \in DOMAIN heap, strategy \in SessionStrategies :
         AnotherSortProducts(ref, strategy)
    \/ \E ref \in DOMAIN heap, strategies \in SessionStrategySets :
         AnotherBatchSort(ref, strategies)
    \/ \E ref \in DOMAIN heap : AnotherValidateProducts(ref)

SessionSpec == SessionInit /\ [][SessionNext]_vars

----------------------------------------------------------------------------
(* What the claims speak of *)

\* the sequence the caller passed, as the caller's array holds it now
Input == Contents(heap, products)

\* a SortProducts call has returned a result
Sorted == result # << >>

\* the sequence of the result
Output == heap[result[1].Products]

\* the sorter of the strategy of the result
UsedSorter == CreateSorter(result[1].Strategy).sorter[1]

PriceStrategies == { SortByPriceAsc, SortByPriceDesc }

DistinctIDs(seq) ==
    \A i, j \in 1 .. Len(seq) : i # j => seq[i].ID # seq[j].ID

DistinctPrices(seq) ==
    \A i, j \in 1 .. Len(seq) : i # j => seq[i].Price # seq[j].Price

\* neither item is less than the other
Tied(sorter, a, b) == ~SorterLess(sorter, a, b) /\ ~SorterLess(sorter, b, a)

\* out holds the items of in, and tied items in the order they have in in
IsStableImage(in, out, sorter) ==
    /\ Len(in) = Len(out)
    /\ \E f \in Arrangements(Len(in)) :
         /\ out = Arrange(in, f)
         /\ \A i, j \in 1 .. Len(out) :
              i < j /\ Tied(sorter, out[i], out[j]) => f[i] < f[j]

\* every adjacent pair (a before b) of seq satisfies Rel
Adjacent(seq) == { << seq[i], seq[i + 1] >> : i \in 1 .. (Len(seq) - 1) }

----------------------------------------------------------------------------
(* C1 *)

\* C1: after SortProducts and after BatchSort, with a result or with an
\* error, the caller's sequence holds the items it held before the call, in
\* the same order.
C1_NonMutation ==
    call.op \in { "SortProducts", "SortAgain", "SortPermuted", "BatchSort" }
        => Input = original

\* a batch has returned results of which one is ordered differently from the
\* caller's sequence, which is as it was
C1_Witness ==
    /\ call.op = "BatchSort"
    /\ batch # << >>
    /\ \E s \in DOMAIN batch[1].Results :
         heap[batch[1].Results[s].Products] # Input
    /\ Input = original
    /\ Len(Input) = MaxBatchLen

----------------------------------------------------------------------------
(* C2 *)

\* C2 as claimed: for each of the eight strategies, two sequences that are
\* re-arrangements of the same valid items with pairwise distinct ids give
\* the same output.
C2_PermutationInvariance_AllStrategies ==
    call.op = "SortPermuted" /\ Sorted /\ DistinctIDs(Input)
        => Output = prev[1]

\* C2 as amended: the same, for the six strategies whose less function ends
\* in the id, and for the two price strategies when the prices of the items
\* are pairwise distinct.
C2_PermutationInvariance ==
    /\ call.op = "SortPermuted"
    /\ Sorted
    /\ DistinctIDs(Input)
    /\ (result[1].Strategy \in PriceStrategies => DistinctPrices(Input))
    => Output = prev[1]

\* three items with distinct ids, two of them tied on every key but the id,
\* were re-arranged and sorted again by a strategy with the id tie-break, and
\* the output is the one of before
C2_Witness ==
    /\ call.op = "SortPermuted"
    /\ Sorted
    /\ result[1].Strategy = SortByPopularity
    /\ Len(Input) = 3
    /\ DistinctIDs(Input)
    /\ \E i, j \in 1 .. 3 : i # j /\ Input[i].ViewsCount = Input[j].ViewsCount
                                  /\ Input[i].SalesCount = Input[j].SalesCount
    /\ Output = prev[1]
    /\ Output # Input

----------------------------------------------------------------------------
(* C3 *)

----------------------------------------------------------------------------
(* C4 *)

\* C4 as claimed: the less function of each strategy is irreflexive and
\* transitive, and of two items with different ids exactly one is less than
\* the other.
C4_TotalOrder ==
    Sorted /\ DistinctIDs(Input) =>
        \A i, j, k \in 1 .. Len(Input) :
            /\ ~SorterLess(UsedSorter, Input[i], Input[i])
            /\ (SorterLess(UsedSorter, Input[i], Input[j])
                    /\ SorterLess(UsedSorter, Input[j], Input[k])
                => SorterLess(UsedSorter, Input[i], Input[k]))
            /\ (i # j => (SorterLess(UsedSorter, Input[i], Input[j])
                            <=> ~SorterLess(UsedSorter, Input[j], Input[i])))

\* C4 as amended: the less function of each strategy is irreflexive and
\* transitive; of two items with different ids exactly one is less than the
\* other under the six strategies that end in the id, and under the two
\* price strategies when their prices differ; under the price strategies two
\* items of equal price are neither less than the other.
C4_OrderOfLess ==
    Sorted /\ DistinctIDs(Input) =>
        \A i, j, k \in 1 .. Len(Input) :
            /\ ~SorterLess(UsedSorter, Input[i], Input[i])
            /\ (SorterLess(UsedSorter, Input[i], Input[j])
                    /\ SorterLess(UsedSorter, Input[j], Input[k])
                => SorterLess(UsedSorter, Input[i], Input[k]))
            /\ (i # j =>
                  IF result[1].Strategy \in PriceStrategies
                     /\ Input[i].Price = Input[j].Price
                  THEN Tied(UsedSorter, Input[i], Input[j])
                  ELSE (SorterLess(UsedSorter, Input[i], Input[j])
                            <=> ~SorterLess(UsedSorter, Input[j], Input[i])))

\* three items with distinct ids, two of them created at the same time, were
\* sorted by creation time
C4_Witness ==
    /\ Sorted
    /\ result[1].Strategy = SortByCreatedAtDesc
    /\ Len(Input) = 3
    /\ DistinctIDs(Input)
    /\ \E i, j \in 1 .. 3 : i # j /\ Input[i].CreatedAt = Input[j].CreatedAt
    /\ \E i, j \in 1 .. 3 : Input[i].CreatedAt # Input[j].CreatedAt

----------------------------------------------------------------------------
(* C5 *)

\* C5: SortProducts applied to the output of SortProducts, with the same
\* strategy, returns that sequence again.
C5_Idempotence ==
    call.op = "SortAgain" =>
        /\ Sorted
        /\ err = NoError
        /\ Output = Input
        /\ result[1].Strategy = call.strategy

\* the output of a price sort that holds two items of equal price was sorted
\* again
C5_Witness ==
    /\ call.op = "SortAgain"
    /\ Sorted
    /\ result[1].Strategy = SortByPriceAsc
    /\ Len(Input) = 3
    /\ DistinctIDs(Input)
    /\ ~DistinctPrices(Input)
    /\ Output = Input

----------------------------------------------------------------------------
(* C6 *)

\* C6: a successful SortProducts result holds as many items as the input,
\* the empty input included, and its ProductCount is that number.
C6_CountPreservation ==
    Sorted => /\ Len(Output) = Len(Input)
              /\ result[1].ProductCount = Len(Output)

\* a sort of an input of the greatest length has re-ordered it
C6_Witness ==
    /\ Sorted
    /\ call.op = "SortProducts"
    /\ Len(Input) = MaxLen
    /\ Output # Input
    /\ result[1].ProductCount = MaxLen

----------------------------------------------------------------------------
(* C7 *)

\* sales/views as a fraction, 0 when there are no views
RatioOf(p) ==
    IF p.ViewsCount = 0 THEN << 0, 1 >> ELSE << p.SalesCount, p.ViewsCount >>

\* C7: in the output of the conversion-ratio strategy every adjacent pair
\* (a before b) has ratio(a) > ratio(b), or equal ratios and
\* sales(a) > sales(b), or equal ratios and sales and id(a) <= id(b).
C7_ConversionRatioOrdering ==
    Sorted /\ result[1].Strategy = SortBySalesConversionRatio =>
        \A ab \in Adjacent(Output) :
            LET ra == RatioOf(ab[1])
                rb == RatioOf(ab[2])
            IN  \/ ra[1] * rb[2] > rb[1] * ra[2]
                \/ /\ ra[1] * rb[2] = rb[1] * ra[2]
                   /\ ab[1].SalesCount > ab[2].SalesCount
                \/ /\ ra[1] * rb[2] = rb[1] * ra[2]
                   /\ ab[1].SalesCount = ab[2].SalesCount
                   /\ ab[1].ID <= ab[2].ID

\* an output of the conversion-ratio strategy, ordered differently from the
\* input, with a pair of equal ratio and different sales and a pair equal in
\* both and different in id
C7_Witness ==
    /\ Sorted
    /\ call.op = "SortProducts"
    /\ result[1].Strategy = SortBySalesConversionRatio
    /\ Output # Input
    /\ \E ab \in Adjacent(Output) :
         /\ ab[1].SalesCount * ab[2].ViewsCount = ab[2].SalesCount * ab[1].ViewsCount
         /\ ab[1].SalesCount > ab[2].SalesCount
    /\ \E ab \in Adjacent(Output) :
         /\ ab[1].SalesCount = ab[2].SalesCount
         /\ ab[1].ViewsCount = ab[2].ViewsCount
         /\ ab[1].ID < ab[2].ID

----------------------------------------------------------------------------
(* C8 *)

\* C8: in the output of the revenue strategy every adjacent pair (a before
\* b) has revenue(a) > revenue(b), or equal revenues and sales(a) > sales(b),
\* or equal revenues and sales and id(a) <= id(b); revenue = price x sales.
C8_RevenueOrdering ==
    Sorted /\ result[1].Strategy = SortByRevenue =>
        \A ab \in Adjacent(Output) :
            LET va == ab[1].Price * ab[1].SalesCount
                vb == ab[2].Price * ab[2].SalesCount
            IN  \/ va > vb
                \/ va = vb /\ ab[1].SalesCount > ab[2].SalesCount
                \/ va = vb /\ ab[1].SalesCount = ab[2].SalesCount
                           /\ ab[1].ID <= ab[2].ID

\* an output of the revenue strategy, ordered differently from the input,
\* with a pair of equal revenue and different sales and a pair of different
\* revenue
C8_Witness ==
    /\ Sorted
    /\ call.op = "SortProducts"
    /\ result[1].Strategy = SortByRevenue
    /\ Output # Input
    /\ \E ab \in Adjacent(Output) :
         /\ ab[1].Price * ab[1].SalesCount = ab[2].Price * ab[2].SalesCount
         /\ ab[1].SalesCount > ab[2].SalesCount
    /\ \E ab \in Adjacent(Output) :
         ab[1].Price * ab[1].SalesCount > ab[2].Price * ab[2].SalesCount

----------------------------------------------------------------------------
(* C9 *)

\* C9: in the output of the popularity strategy every adjacent pair (a
\* before b) has views(a) > views(b), or equal views and sales(a) > sales(b),
\* or equal views and sales and id(a) <= id(b).
C9_PopularityOrdering ==
    Sorted /\ result[1].Strategy = SortByPopularity =>
        \A ab \in Adjacent(Output) :
            \/ ab[1].ViewsCount > ab[2].ViewsCount
            \/ /\ ab[1].ViewsCount = ab[2].ViewsCount
               /\ ab[1].SalesCount > ab[2].SalesCount
            \/ /\ ab[1].ViewsCount = ab[2].ViewsCount
               /\ ab[1].SalesCount = ab[2].SalesCount
               /\ ab[1].ID <= ab[2].ID

\* an output of the popularity strategy, ordered differently from the input,
\* with a pair of equal views and different sales and a pair of different
\* views
C9_Witness ==
    /\ Sorted
    /\ call.op = "SortProducts"
    /\ result[1].Strategy = SortByPopularity
    /\ Output # Input
    /\ \E ab \in Adjacent(Output) :
         /\ ab[1].ViewsCount = ab[2].ViewsCount
         /\ ab[1].SalesCount > ab[2].SalesCount
    /\ \E ab \in Adjacent(Output) : ab[1].ViewsCount > ab[2].ViewsCount

----------------------------------------------------------------------------
(* C10 *)

\* C10: created-descending puts later creation times first and
\* created-ascending earlier ones first; in both, items created at the same
\* time are ordered by id ascending.
C10_CreatedAtOrdering ==
    /\ Sorted /\ result[1].Strategy = SortByCreatedAtDesc =>
         \A ab \in Adjacent(Output) :
            \/ ab[1].CreatedAt > ab[2].CreatedAt
            \/ ab[1].CreatedAt = ab[2].CreatedAt /\ ab[1].ID <= ab[2].ID
    /\ Sorted /\ result[1].Strategy = SortByCreatedAtAsc =>
         \A ab \in Adjacent(Output) :
            \/ ab[1].CreatedAt < ab[2].CreatedAt
            \/ ab[1].CreatedAt = ab[2].CreatedAt /\ ab[1].ID <= ab[2].ID

\* an output of created-descending, ordered differently from the input, with
\* a pair created at the same time under different ids and a pair created at
\* different times
C10_Witness ==
    /\ Sorted
    /\ call.op = "SortProducts"
    /\ result[1].Strategy = SortByCreatedAtDesc
    /\ Output # Input
    /\ \E ab \in Adjacent(Output) :
         ab[1].CreatedAt = ab[2].CreatedAt /\ ab[1].ID < ab[2].ID
    /\ \E ab \in Adjacent(Output) : ab[1].CreatedAt > ab[2].CreatedAt

----------------------------------------------------------------------------
(* C11 *)

\* C11: in the output of the name strategy every adjacent pair (a before b)
\* has the lower-cased name of a before that of b, or the two lower-cased
\* names equal (the names differ at most in letter case) and id(a) <= id(b).
C11_NameOrdering ==
    Sorted /\ result[1].Strategy = SortByName =>
        \A ab \in Adjacent(Output) :
            \/ StringLess(ToLower(ab[1].Name), ToLower(ab[2].Name))
            \/ /\ ToLower(ab[1].Name) = ToLower(ab[2].Name)
               /\ ab[1].ID <= ab[2].ID

\* an output of the name strategy, ordered differently from the input, in
\* which two names that differ only in letter case are adjacent, the lower id
\* first, and an upper-case name follows a lower-case one
C11_Witness ==
    /\ Sorted
    /\ call.op = "SortProducts"
    /\ result[1].Strategy = SortByName
    /\ Output # Input
    /\ \E ab \in Adjacent(Output) :
         /\ ab[1].Name # ab[2].Name
         /\ ToLower(ab[1].Name) = ToLower(ab[2].Name)
         /\ ab[1].ID < ab[2].ID
    /\ \E ab \in Adjacent(Output) :
         /\ ab[1].Name = ToLower(ab[1].Name)
         /\ ab[2].Name # ToLower(ab[2].Name)
         /\ ToLower(ab[1].Name) # ToLower(ab[2].Name)

----------------------------------------------------------------------------
(* C12 *)

\* C12: in the output of price-ascending every adjacent pair (a before b)
\* has price(a) <= price(b), and in the output of price-descending every
\* adjacent pair has price(a) >= price(b).
C12_PriceOrdering ==
    /\ Sorted /\ result[1].Strategy = SortByPriceAsc =>
         \A ab \in Adjacent(Output) : ab[1].Price <= ab[2].Price
    /\ Sorted /\ result[1].Strategy = SortByPriceDesc =>
         \A ab \in Adjacent(Output) : ab[1].Price >= ab[2].Price

\* an output of price-descending, ordered differently from the input, with a
\* pair of equal price and a pair of different price
C12_Witness ==
    /\ Sorted
    /\ call.op = "SortProducts"
    /\ result[1].Strategy = SortByPriceDesc
    /\ Output # Input
    /\ \E ab \in Adjacent(Output) : ab[1].Price = ab[2].Price
    /\ \E ab \in Adjacent(Output) : ab[1].Price > ab[2].Price

----------------------------------------------------------------------------
(* C13 *)

\* an item without views, or with views and without sales
NonConverting(p) == p.ViewsCount = 0 \/ p.SalesCount = 0

\* C13: a sort by conversion ratio of items among which some have no views
\* succeeds; the ratio of an item without views is the number 0; the items
\* without views and the items with views and without sales come together,
\* after every item that has sales, and among them the order is by sales
\* descending and then by id ascending.
C13_DivisionByZeroSafety ==
    /\ \A i \in 1 .. Len(Input) :
         Input[i].ViewsCount = 0 =>
            /\ SalesConversionRatio(Input[i])[2] # 0
            /\ SalesConversionRatio(Input[i])[1] = 0
    /\ Sorted /\ result[1].Strategy = SortBySalesConversionRatio =>
        /\ err = NoError
        /\ \A i, j \in 1 .. Len(Output) :
             i < j /\ NonConverting(Output[i]) =>
                /\ NonConverting(Output[j])
                /\ \/ Output[i].SalesCount > Output[j].SalesCount
                   \/ /\ Output[i].SalesCount = Output[j].SalesCount
                      /\ Output[i].ID <= Output[j].ID

\* an output of the conversion-ratio strategy, ordered differently from the
\* input, in which an item with sales comes first, then an item without
\* views, then an item with views and without sales and a higher id
C13_Witness ==
    /\ Sorted
    /\ call.op = "SortProducts"
    /\ result[1].Strategy = SortBySalesConversionRatio
    /\ Len(Output) = 3
    /\ Output # Input
    /\ Input[1].ViewsCount # 0 /\ Input[1].SalesCount = 0
    /\ Output[1].SalesCount > 0
    /\ Output[2].ViewsCount = 0
    /\ Output[3].ViewsCount # 0 /\ Output[3].SalesCount = 0
    /\ Output[2].ID < Output[3].ID

----------------------------------------------------------------------------
(* C14 *)

\* the eight registered names
Registered ==
    { SortByPriceAsc, SortByPriceDesc, SortBySalesConversionRatio,
      SortByCreatedAtDesc, SortByCreatedAtAsc, SortByPopularity,
      SortByRevenue, SortByName }

\* C14: SortProducts with a name that is not registered, on a sequence that
\* is not nil, returns no result and the invalid-strategy error of the
\* request validation, which carries the name; the factory is not asked for
\* a sorter (the error is not the factory's) and no sort runs (no array is
\* allocated).
C14_InvalidStrategy ==
    call.op = "SortProducts" /\ call.strategy \notin Registered
    /\ products # NilRef =>
        /\ result = << >>
        /\ err.Msgs = << "sort request validation failed", "invalid sort strategy" >>
        /\ err.Strategies = << call.strategy >>
        /\ DOMAIN heap = { products }

\* SortProducts was called with an unregistered name on three items, one of
\* them invalid, and returned the invalid-strategy error
C14_Witness ==
    /\ call.op = "SortProducts"
    /\ call.strategy = "invalid_strategy"
    /\ products # NilRef
    /\ Len(Input) = 3
    /\ \E i \in 1 .. 3 : ~ProductIsValid(Input[i], now)
    /\ result = << >>
    /\ err.Strategies = << "invalid_strategy" >>

----------------------------------------------------------------------------
(* C15 *)

\* the rules of an item: a positive id, a name that is not empty and at most
\* 255 long, a price from 0 to 999999.99, a creation time that is set and not
\* later than the current time t, sales and views that are not negative, and
\* no more sales than views
ItemRulesHold(p, t) ==
    /\ p.ID > 0
    /\ Len(p.Name) >= 1 /\ Len(p.Name) <= 255
    /\ 0 <= p.Price /\ p.Price <= 99999999
    /\ p.CreatedAt # 0 /\ p.CreatedAt <= t
    /\ p.SalesCount >= 0
    /\ p.ViewsCount >= 0
    /\ p.SalesCount <= p.ViewsCount

\* C15: with a registered strategy SortProducts returns a result and no
\* error exactly when the sequence is not nil and every item of it keeps the
\* rules, and an error and no result otherwise; a nil sequence gives the
\* error that says so; an empty sequence gives an empty result with
\* ProductCount 0.
C15_AbsentVersusEmpty ==
    call.op = "SortProducts" /\ call.strategy \in Registered =>
        /\ (Sorted /\ err = NoError)
              <=> (products # NilRef
                   /\ \A i \in 1 .. Len(Input) : ItemRulesHold(Input[i], now))
        /\ (~Sorted <=> err # NoError)
        /\ products = NilRef =>
              err.Msgs = << "sort request validation failed",
                            "products collection cannot be nil" >>
        /\ (products # NilRef /\ Len(Input) = 0) =>
              /\ Sorted
              /\ Output = << >>
              /\ result[1].ProductCount = 0

\* an empty sequence that is not nil was sorted: the result is empty, its
\* count is 0 and there is no error
C15_Witness ==
    /\ call.op = "SortProducts"
    /\ call.strategy = SortByPriceAsc
    /\ products # NilRef
    /\ Len(Input) = 0
    /\ Sorted
    /\ Output = << >>
    /\ result[1].ProductCount = 0
    /\ err = NoError

----------------------------------------------------------------------------
(* C16 *)

\* C16: SortProducts, BatchSort and ValidateProducts, called (with valid
\* strategies) on a sequence in which two items carry the same id, return a
\* validation error and no result.
C16_IdentifierUniqueness ==
    /\ call.op \in { "SortProducts", "BatchSort", "ValidateProducts" }
    /\ products # NilRef
    /\ ~DistinctIDs(Input)
    /\ call.op = "SortProducts" => call.strategy \in Registered
    /\ call.op = "BatchSort" =>
          /\ call.strategies # << >>
          /\ \A i \in DOMAIN call.strategies : call.strategies[i] \in Registered
    => /\ err # NoError
       /\ err.Items # << >>
       /\ result = << >>
       /\ batch = << >>

----------------------------------------------------------------------------
(* C17 *)

----------------------------------------------------------------------------
(* C18 *)

\* the rules p breaks, each as the field and the message that report it
RulesBroken(p, t) ==
    { r \in { << "ID", "must be positive", p.ID <= 0 >>,
              << "Name", "cannot be empty", Len(p.Name) = 0 >>,
              << "Name", "cannot exceed 255 characters", Len(p.Name) > 255 >>,
              << "Price", "cannot be negative", p.Price < 0 >>,
              << "Price", "exceeds maximum allowed value (999999.99)",
                 p.Price > 99999999 >>,
              << "CreatedAt", "must be set", p.CreatedAt = 0 >>,
              << "CreatedAt", "cannot be in the future", p.CreatedAt > t >>,
              << "SalesCount", "cannot be negative", p.SalesCount < 0 >>,
              << "ViewsCount", "cannot be negative", p.ViewsCount < 0 >>,
              << "SalesCount", "sales count cannot exceed views count",
                 p.SalesCount > p.ViewsCount >> } : r[3] }

\* C18: the error of a validation of the items (of a sequence that is not
\* nil, for a registered strategy) has exactly one entry for each invalid
\* item of the collection, in the order of the items and with the item's
\* index and id, and the entry of an item lists each rule the item breaks,
\* once.
C18_AllViolationsReported ==
    /\ call.op \in { "ValidateProducts", "SortProducts" }
    /\ products # NilRef
    /\ call.op = "SortProducts" => call.strategy \in Registered
    =>
        LET invalid == { i \in 1 .. Len(Input) : ~ItemRulesHold(Input[i], now) }
        IN  /\ (err = NoError <=> invalid = {})
            /\ Len(err.Items) = Cardinality(invalid)
            /\ \A k \in 1 .. Len(err.Items) :
                 LET e == err.Items[k]
                 IN  /\ e.Index + 1 \in invalid
                     /\ \A m \in 1 .. (k - 1) : err.Items[m].Index < e.Index
                     /\ e.ID = Input[e.Index + 1].ID
                     /\ Len(e.Errors) = Cardinality(RulesBroken(Input[e.Index + 1], now))
                     /\ { << x.Field, x.Message, TRUE >> : x \in
                            { e.Errors[n] : n \in 1 .. Len(e.Errors) } }
                          = RulesBroken(Input[e.Index + 1], now)

\* three items were validated, the first and the third invalid: the error
\* has an entry for index 0 and one for index 2, the latter with four
\* violations or more
C18_Witness ==
    /\ call.op = "ValidateProducts"
    /\ Len(Input) = 3
    /\ ItemRulesHold(Input[2], now)
    /\ Len(err.Items) = 2
    /\ err.Items[1].Index = 0
    /\ err.Items[2].Index = 2
    /\ Len(err.Items[2].Errors) >= 4

----------------------------------------------------------------------------
(* C19 *)

\* C19: BatchSort with a sequence that is not nil and a set of no strategies
\* returns no result and the error that the set cannot be empty, although
\* SortStrategySet.Validate accepts that set.
C19_EmptyStrategySet ==
    call.op = "BatchSort" /\ products # NilRef /\ Len(call.strategies) = 0 =>
        /\ batch = << >>
        /\ err.Msgs = << "batch sort request validation failed",
                         "strategies set cannot be empty" >>
        /\ SortStrategySetValidate(call.strategies) = NoError

\* BatchSort was called with no strategies on valid items and returned the
\* error and no result
C19_Witness ==
    /\ call.op = "BatchSort"
    /\ call.strategies = << >>
    /\ products # NilRef
    /\ Len(Input) = MaxBatchLen
    /\ \A i \in 1 .. Len(Input) : ItemRulesHold(Input[i], now)
    /\ batch = << >>
    /\ err # NoError

----------------------------------------------------------------------------
(* C20 *)

\* the strategies of a set
Requested(strategies) == { strategies[i] : i \in DOMAIN strategies }

\* C20: a BatchSort call that returns an error returns it from the validation
\* of the request, with no result and before any sorter has copied the
\* sequence; a BatchSort call that returns a result returns one whose map has
\* an entry for every requested strategy and for no other.
C20_BatchAllOrNothing ==
    [][ call.op = "none" /\ call'.op = "BatchSort" =>
          /\ \A o \in BatchSortCall(heap, products, call'.strategies, now) :
               /\ o.err # NoError => o.heap = heap /\ o.result = << >>
               /\ o.err = NoError =>
                    /\ o.result # << >>
                    /\ DOMAIN o.result[1].Results = Requested(call'.strategies)
          /\ err' # NoError =>
               /\ batch' = << >>
               /\ err'.Msgs[1] = "batch sort request validation failed"
               /\ heap' = Reclaim(heap, { products })
          /\ err' = NoError =>
               /\ batch' # << >>
               /\ DOMAIN batch'[1].Results = Requested(call'.strategies)
      ]_vars

\* BatchSort returned an error for a set whose first strategy is registered
\* and whose second is not, called on valid items
C20_Witness ==
    /\ call.op = "BatchSort"
    /\ Len(call.strategies) = 2
    /\ call.strategies[1] \in Registered
    /\ call.strategies[2] \notin Registered
    /\ products # NilRef
    /\ Len(Input) = MaxBatchLen
    /\ \A i \in 1 .. Len(Input) : ItemRulesHold(Input[i], now)
    /\ err # NoError
    /\ batch = << >>

----------------------------------------------------------------------------
(* C21 *)

\* the sequences SortProducts may return for the caller's sequence under s
SortedAlone(s) ==
    { o.heap[o.result[1].Products] :
        o \in { x \in SortProductsCall(Reclaim(heap, { products }), products, s, now) :
                  x.err = NoError } }

\* C21: the map of a successful BatchSort has one entry for each strategy
\* requested, a strategy requested twice included, and no other; the entry
\* of strategy s carries s, and its sequence is one that SortProducts returns
\* for the same items and s.
C21_BatchEntries ==
    call.op = "BatchSort" /\ batch # << >> =>
        /\ DOMAIN batch[1].Results = Requested(call.strategies)
        /\ \A s \in DOMAIN batch[1].Results :
             /\ batch[1].Results[s].Strategy = s
             /\ heap[batch[1].Results[s].Products] \in SortedAlone(s)

\* a batch of two different strategies has returned two entries with
\* different sequences, of which one differs from the input
C21_Witness ==
    /\ call.op = "BatchSort"
    /\ batch # << >>
    /\ Len(call.strategies) = 2
    /\ call.strategies[1] # call.strategies[2]
    /\ Len(Input) = MaxBatchLen
    /\ heap[batch[1].Results[call.strategies[1]].Products]
         # heap[batch[1].Results[call.strategies[2]].Products]
    /\ heap[batch[1].Results[call.strategies[1]].Products] # Input

----------------------------------------------------------------------------
(* C22 *)

\* C22: the BatchSortResult that BatchSort returns passes its Validate; its
\* StrategyCount is the size of its map, every entry passes
\* SortResult.Validate, and its ProductCount is the ProductCount of every
\* entry and the length of the input.
C22_BatchEnvelopeConsistency ==
    call.op = "BatchSort" /\ batch # << >> =>
        /\ BatchSortResultValidate(heap, batch) = { NoError }
        /\ batch[1].StrategyCount = Cardinality(DOMAIN batch[1].Results)
        /\ batch[1].ProductCount = Len(Input)
        /\ \A s \in DOMAIN batch[1].Results :
             /\ SortResultValidate(heap, << batch[1].Results[s] >>) = NoError
             /\ batch[1].Results[s].ProductCount = batch[1].ProductCount
             /\ Len(heap[batch[1].Results[s].Products]) = batch[1].ProductCount

\* a batch that names one strategy twice has returned a result of one entry
\* over an input of the greatest length
C22_Witness ==
    /\ call.op = "BatchSort"
    /\ batch # << >>
    /\ Len(call.strategies) = 2
    /\ batch[1].StrategyCount = 1
    /\ Len(Input) = MaxBatchLen
    /\ batch[1].ProductCount = MaxBatchLen
    /\ BatchSortResultValidate(heap, batch) = { NoError }

----------------------------------------------------------------------------
(* C23 *)

\* the maps from strategy to sorted sequence that a successful BatchSort of
\* the caller's sequence with the set strategies may return
BatchOutcomes(strategies) ==
    { [ s \in DOMAIN o.result[1].Results |-> o.heap[o.result[1].Results[s].Products] ] :
        o \in { x \in BatchSortCall(Reclaim(heap, { products }), products,
                                    strategies, now) : x.err = NoError } }

\* the map from strategy to sorted sequence of the batch returned
BatchOutcome ==
    [ s \in DOMAIN batch[1].Results |-> heap[batch[1].Results[s].Products] ]

\* C23: for the same items, BatchSort with a set that holds the same
\* strategies in another order returns the same keys with the same sequence
\* under each key: what the call has returned is what the call with any such
\* set returns. sort.Slice is a function of the slice and the less function
\* it is given, so the sequences under a key are equal when they come from
\* the same choice among equal arguments.
C23_BatchOrderIndependence ==
    call.op = "BatchSort" /\ batch # << >> =>
        \A other \in StrategySets :
            Requested(other) = Requested(call.strategies) =>
                /\ BatchOutcomes(other) = BatchOutcomes(call.strategies)
                /\ BatchOutcome \in BatchOutcomes(other)
                /\ \A m \in BatchOutcomes(other) :
                     /\ DOMAIN m = DOMAIN BatchOutcome
                     /\ \A s \in DOMAIN m : m[s] \in SortedAlone(s)

\* a batch of two different strategies has returned two different sequences,
\* and the set in the other order is one a caller may pass
C23_Witness ==
    /\ call.op = "BatchSort"
    /\ batch # << >>
    /\ Len(call.strategies) = 2
    /\ call.strategies[1] # call.strategies[2]
    /\ << call.strategies[2], call.strategies[1] >> \in StrategySets
    /\ BatchOutcome[call.strategies[1]] # BatchOutcome[call.strategies[2]]
    /\ BatchOutcome \in BatchOutcomes(<< call.strategies[2], call.strategies[1] >>)
    /\ Len(Input) = MaxBatchLen
    /\ DistinctIDs(Input)

----------------------------------------------------------------------------
(* C24 *)

\* what a call returns: the error, and the strategy, sequence and count of
\* every result, by the strategy of the call or the key of the map
Returned(e, h, results) ==
    [ err |-> e,
      entries |-> [ s \in DOMAIN results |->
                      [ Strategy |-> results[s].Strategy,
                        Products |-> h[results[s].Products],
                        ProductCount |-> results[s].ProductCount ] ] ]

\* what SortProducts may return for the shared sequence when it runs alone
AloneSortProducts(strategy) ==
    { Returned(o.err, o.heap,
               IF o.result = << >> THEN << >>
               ELSE [ s \in { strategy } |-> o.result[1] ]) :
        o \in SortProductsCall(<< original >>, 1, strategy, now) }

\* what BatchSort may return for the shared sequence when it runs alone
AloneBatchSort(strategies) ==
    { Returned(o.err, o.heap,
               IF o.result = << >> THEN << >> ELSE o.result[1].Results) :
        o \in BatchSortCall(<< original >>, 1, strategies, now) }

\* what the call of caller c has returned
ReturnedTo(c) ==
    IF call[c].op = "BatchSort"
    THEN Returned(err[c], heap,
                  IF batch[c] = << >> THEN << >> ELSE batch[c][1].Results)
    ELSE Returned(err[c], heap,
                  IF result[c] = << >> THEN << >>
                  ELSE [ s \in { call[c].strategy } |-> result[c][1] ])

\* the arrays the call of caller c has returned
ArraysOf(c) ==
    IF call[c].op = "BatchSort"
    THEN (IF batch[c] = << >> THEN { } ELSE ResultRefs(batch[c][1].Results))
    ELSE (IF result[c] = << >> THEN { } ELSE { result[c][1].Products })

\* C24: while SortProducts and BatchSort calls run at the same time over one
\* sequence, in any interleaving of their steps, the sequence stays as it
\* was, every call that has returned has returned what it returns when it
\* runs alone, and no call has returned an array of the shared sequence or
\* of another call.
C24_SharedInputConcurrency ==
    /\ heap[products] = original
    /\ \A c \in Callers :
         call[c].pc = "done" =>
             /\ ReturnedTo(c) \in
                  (IF call[c].op = "BatchSort"
                   THEN AloneBatchSort(call[c].strategies)
                   ELSE AloneSortProducts(call[c].strategy))
             /\ products \notin ArraysOf(c)
             /\ \A d \in Callers \ { c } : ArraysOf(c) \cap ArraysOf(d) = { }

\* a BatchSort and a SortProducts over three items have both returned, and
\* the sort took its copy between the two copies of the batch
C24_Witness ==
    /\ \A c \in Callers : call[c].pc = "done" /\ err[c] = NoError
    /\ call[1].op = "BatchSort"
    /\ call[2].op = "SortProducts"
    /\ Len(original) = 3
    /\ ArraysOf(1) = { 2, 4 }
    /\ ArraysOf(2) = { 3 }
    /\ heap[3] # original
    /\ heap[products] = original

----------------------------------------------------------------------------
(* C25 *)

\* seq holds no value twice
NoDuplicates(seq) == \A i, j \in DOMAIN seq : i # j => seq[i] # seq[j]

\* C25: GetSupportedStrategies returns the eight strategies, each once;
\* Contains on what it returns and IsValid are true of a name exactly when
\* it is one of the eight, and false of the empty name.
C25_RegistryMembership ==
    /\ call.op = "GetSupportedStrategies" =>
         /\ Len(result[1]) = 8
         /\ NoDuplicates(result[1])
         /\ { result[1][i] : i \in DOMAIN result[1] } = Registered
    /\ call.op \in { "IsValid", "Contains" } =>
         /\ result[1] <=> call.strategy \in Registered
         /\ call.strategy = "" => ~result[1]

\* IsValid was asked about the empty name and said no
C25_Witness ==
    /\ call.op = "IsValid"
    /\ call.strategy = ""
    /\ result = << FALSE >>

----------------------------------------------------------------------------
(* C26 *)

\* what SortProducts may return for the caller's sequence under a context
\* that is not done
UnderLiveContext(strategy) ==
    { Returned(o.err, o.heap,
               IF o.result = << >> THEN << >>
               ELSE [ s \in { strategy } |-> o.result[1] ]) :
        o \in SortProductsWithContext("live", Reclaim(heap, { products }),
                                      products, strategy, now) }

\* what BatchSort may return for the caller's sequence under a context that
\* is not done
BatchUnderLiveContext(strategies) ==
    { Returned(o.err, o.heap,
               IF o.result = << >> THEN << >> ELSE o.result[1].Results) :
        o \in BatchSortWithContext("live", Reclaim(heap, { products }),
                                   products, strategies, now) }

\* C26: SortProducts and BatchSort return under a context that is cancelled
\* or expired what they return under a live one: a result with the same
\* sequences for a request that is valid, and the same error for one that is
\* not.
C26_CancellationNotObserved ==
    /\ call.op = "SortProducts" =>
         /\ Returned(err, heap,
                     IF result = << >> THEN << >>
                     ELSE [ s \in { call.strategy } |-> result[1] ])
              \in UnderLiveContext(call.strategy)
         /\ (call.strategy \in Registered
             /\ \A i \in 1 .. Len(Input) : ItemRulesHold(Input[i], now))
              => err = NoError /\ Sorted
    /\ call.op = "BatchSort" =>
         /\ Returned(err, heap,
                     IF batch = << >> THEN << >> ELSE batch[1].Results)
              \in BatchUnderLiveContext(call.strategies)
         /\ (call.strategies # << >>
             /\ Requested(call.strategies) \subseteq Registered
             /\ \A i \in 1 .. Len(Input) : ItemRulesHold(Input[i], now))
              => err = NoError /\ batch # << >>

\* SortProducts was called with a cancelled context and has returned a
\* sequence in another order than the input
C26_Witness ==
    /\ call.op = "SortProducts"
    /\ call.ctx = "cancelled"
    /\ err = NoError
    /\ Sorted
    /\ Len(Input) = MaxBatchLen
    /\ Output # Input

----------------------------------------------------------------------------
(* C27 *)

\* C27: whatever calls a service has served before, a call returns what the
\* same call returns on its own: the same error, or results with the same
\* strategy, sequence and count.
C27_Statelessness ==
    /\ call.op = "SortProducts" =>
         Returned(err, heap,
                  IF result = << >> THEN << >>
                  ELSE [ s \in { call.strategy } |-> result[1] ])
           \in AloneSortProducts(call.strategy)
    /\ call.op = "BatchSort" =>
         Returned(err, heap, IF batch = << >> THEN << >> ELSE batch[1].Results)
           \in AloneBatchSort(call.strategies)
    /\ call.op = "ValidateProducts" =>
         err = ValidateProductsCall(<< original >>, 1, now)

\* after two calls of which one has returned a result, SortProducts was
\* called with an invalid sequence and has returned an error
C27_Witness ==
    /\ prev = << MaxCalls >>
    /\ Cardinality(DOMAIN heap) > 2
    /\ call.op = "SortProducts"
    /\ call.strategy = SortByName
    /\ Len(Input) = 2
    /\ err # NoError
    /\ result = << >>

----------------------------------------------------------------------------
(* C28 *)

\* how many times seq holds the item p
Occurrences(seq, p) == Cardinality({ i \in DOMAIN seq : seq[i] = p })

\* C28: the output of a successful SortProducts holds every item as many
\* times as the input holds it, and no other item, whatever the strategy and
\* also when no item is less than another.
C28_OutputIsPermutation ==
    Sorted =>
        /\ \A i \in DOMAIN Input :
             Occurrences(Output, Input[i]) = Occurrences(Input, Input[i])
        /\ \A i \in DOMAIN Output :
             Occurrences(Input, Output[i]) = Occurrences(Output, Output[i])

\* a sort of three items, two of them the same item and the third another,
\* of which none is less than another
C28_Witness ==
    /\ Sorted
    /\ call.op = "SortProducts"
    /\ Len(Input) = 3
    /\ \A i, j \in 1 .. 3 : Tied(UsedSorter, Input[i], Input[j])
    /\ \E i, j \in 1 .. 3 : i # j /\ Input[i] = Input[j]
    /\ \E i, j \in 1 .. 3 : Input[i] # Input[j]
    /\ \A i \in DOMAIN Input :
         Occurrences(Output, Input[i]) = Occurrences(Input, Input[i])

----------------------------------------------------------------------------
(* C29 *)

\* C29: CreateSorter returns a sorter and no error for the names of which
\* IsValid is true, and no sorter and an error for every other name;
\* IsSupported says the same; the sorter it returns for a name reports that
\* name as its strategy. Hence a SortProducts call that fails has failed in
\* the validation of its request, and one whose strategy is registered and
\* whose items are valid returns a result.
C29_FactoryAgreesWithRegistry ==
    /\ call.op = "CreateSorter" =>
         /\ err = NoError <=> IsValid(call.strategy)
         /\ err = NoError <=> result[1] # << >>
         /\ err = NoError => SorterGetStrategy(result[1][1]) = call.strategy
         /\ err # NoError => err.Msgs = << "unsupported sort strategy" >>
    /\ call.op = "IsSupported" => (result[1] <=> IsValid(call.strategy))
    /\ call.op = "SortProducts" =>
         /\ err # NoError => err.Msgs[1] = "sort request validation failed"
         /\ err = NoError <=> IsValid(call.strategy)
         /\ err = NoError => result[1].Strategy = call.strategy

\* CreateSorter was asked for a name that differs from a registered one in
\* the case of its letters and returned an error
C29_Witness ==
    /\ call.op = "CreateSorter"
    /\ call.strategy = "NAME"
    /\ ~IsValid(call.strategy)
    /\ result = << << >> >>
    /\ err # NoError

----------------------------------------------------------------------------
(* C30 *)

\* the caller's sequence holds an item that breaks a rule
SomeItemInvalid == \E i \in 1 .. Len(Input) : ~ItemRulesHold(Input[i], now)

\* the set names a strategy that is not registered
SomeStrategyInvalid(strategies) == ~(Requested(strategies) \subseteq Registered)

\* C30: of the defects of a request SortProducts reports the first of: the
\* sequence is nil, the strategy is not registered, an item is invalid; and
\* BatchSort the first of: the sequence is nil, the set is empty, a strategy
\* of the set is not registered, an item is invalid.
C30_ValidationPrecedence ==
    /\ call.op = "SortProducts" =>
         err.Msgs =
           IF products = NilRef
           THEN << "sort request validation failed",
                   "products collection cannot be nil" >>
           ELSE IF call.strategy \notin Registered
           THEN << "sort request validation failed", "invalid sort strategy" >>
           ELSE IF SomeItemInvalid
           THEN << "sort request validation failed", "product validation failed",
                   "collection validation failed" >>
           ELSE << >>
    /\ call.op = "BatchSort" =>
         err.Msgs =
           IF products = NilRef
           THEN << "batch sort request validation failed",
                   "products collection cannot be nil" >>
           ELSE IF call.strategies = << >>
           THEN << "batch sort request validation failed",
                   "strategies set cannot be empty" >>
           ELSE IF SomeStrategyInvalid(call.strategies)
           THEN << "batch sort request validation failed",
                   "strategies validation failed", "invalid sort strategies" >>
           ELSE IF SomeItemInvalid
           THEN << "batch sort request validation failed",
                   "product validation failed", "collection validation failed" >>
           ELSE << >>

\* SortProducts was called with a strategy that is not registered on a
\* sequence that holds an invalid item, and has reported the strategy
C30_Witness ==
    /\ call.op = "SortProducts"
    /\ products # NilRef
    /\ call.strategy \notin Registered
    /\ SomeItemInvalid
    /\ err.Msgs = << "sort request validation failed", "invalid sort strategy" >>
    /\ err.Items = << >>

====
